---- MODULE Spec2Model ----
(***************************************************************************)
(* Versioned key-value substrate (basholeveldb and gbucket engines) and    *)
(* the labels64 merge/split mutation pipeline of DVID.                     *)
(*                                                                         *)
(* The specifications of this module:                                      *)
(*   Spec      - the versioned key-value engines (Put / Delete / Get);     *)
(*   SpecMS    - the sharded merge/split pipeline working on one store;    *)
(*   SpecBatch - batches committed on both engines;                        *)
(*   SpecRange - the range operations of the basholeveldb engine;          *)
(*   SpecFlush - the request buffer of the gbucket engine.                 *)
(***************************************************************************)
EXTENDS Integers, Sequences, FiniteSets, TLC

VARIABLES
    ldb,        \* basholeveldb: physical key -> value (DOMAIN = stored keys)
    bucket,     \* gbucket: object name (physical key) -> value
    hist,       \* history: last successful write per (type-key, version)
    nops,       \* number of key-value operations issued so far
    openV,      \* the open version the merge/split requests are made at
    call,       \* per merge/split request: its coordinator's state
    mutateCh,   \* per shard: the FIFO channel of block operations
    worker,     \* per shard: the state of its mutateBlock goroutine
    mutWG,      \* mutation id -> number of block operations not yet done
    nextMutID,  \* the next mutation id NewMutationID hands out
    dirty,      \* dirty-labels set: <<version, label>> of in-flight requests
    updating,   \* StartUpdate / StopUpdate count of the data instance
    maxLabel,   \* the largest label handed out by NewLabel
    fails,      \* number of store / notification failures so far
    seqBlock,   \* per block: the block operations applied in enqueue order
    blkFailed,  \* per block: whether one of its block operations failed
    rcall,      \* the range call in progress on the basholeveldb engine
    prod,       \* the range call's producer goroutine and its iterator
    cons,       \* the range call's consumer: the caller of the operation
    flush,      \* the gbucket goBuffer being flushed and its goroutines
    redone      \* whether the last key-value operation repeated a Delete

rgVars == <<rcall, prod, cons>>
kvVars == <<bucket, hist, nops, rgVars, flush, redone>>
msVars == <<openV, call, mutateCh, worker, mutWG, nextMutID, dirty, updating,
            maxLabel, fails, seqBlock, blkFailed>>

vars == <<ldb, kvVars, msVars>>

----------------------------------------------------------------------------
(* Bounds of the model *)

\* number of nodes of the version DAG (node v has parent v \div 2)
MaxVersion == 4
\* number of key-value operations issued in one behaviour
MaxOps == 4
\* capacity of one shard channel
ChanCap == 1
\* number of store or notification failures in one behaviour
MaxFails == 1
\* number of batches committed in one behaviour
MaxBatches == 2
\* number of voxels of a block relabeled on its own
BlockVoxels == 3

----------------------------------------------------------------------------
(* Version DAG and key codec *)

Versions == 1..MaxVersion
RootVersion == 1
Parent(v) == v \div 2

\* ancestors(v) = [v, parent(v), ..., root]
RECURSIVE Ancestors(_)
Ancestors(v) == IF v = RootVersion THEN <<v>> ELSE <<v>> \o Ancestors(Parent(v))

AncestorSet(v) == {Ancestors(v)[i] : i \in 1..Len(Ancestors(v))}
IsAncestorOrSelf(a, d) == a \in AncestorSet(d)

\* tombstone flag of a physical key
MarkData == 0
MarkTombstone == 1

\* physical key = <<type-key, version, tombstone flag>>; the instance prefix is
\* the same for every key of one data instance and is left out
ConstructKey(v, tk) == <<tk, v, MarkData>>
TombstoneKey(v, tk) == <<tk, v, MarkTombstone>>
MinVersionKey(tk) == <<tk, 0, MarkData>>
MaxVersionKey(tk) == <<tk, MaxVersion + 1, MarkTombstone>>
TKeyFromKey(k) == k[1]
VersionFromKey(k) == k[2]
IsTombstone(k) == k[3] = MarkTombstone

\* byte order of two physical keys with the same type-key
VersionKeyLE(k1, k2) ==
    \/ k1[2] < k2[2]
    \/ k1[2] = k2[2] /\ k1[3] <= k2[3]

\* values are byte strings, written as tuples; Nil is the absent value and
\* EmptyValue the value stored under a tombstone key
Nil == <<>>
EmptyValue == <<"empty">>
Values == {<<"x">>, <<"y">>}
TKeys == {1, 2}

----------------------------------------------------------------------------
(* The raw ordered store: a function whose domain is the set of stored keys *)

RawPut(s, k, val) == [x \in (DOMAIN s) \cup {k} |-> IF x = k THEN val ELSE s[x]]
RawDelete(s, k) == [x \in (DOMAIN s) \ {k} |-> s[x]]
RawGet(s, k) == IF k \in DOMAIN s THEN s[k] ELSE Nil

EmptyStore == [x \in {} |-> Nil]

\* a levigo WriteBatch: sequence of <<"put", key, value>> / <<"del", key>>,
\* written atomically in the order the operations were added
RECURSIVE WriteBatch(_, _)
WriteBatch(s, ops) ==
    IF ops = <<>> THEN s
    ELSE LET op == Head(ops)
             s1 == IF op[1] = "put" THEN RawPut(s, op[2], op[3])
                   ELSE RawDelete(s, op[2])
         IN WriteBatch(s1, Tail(ops))

----------------------------------------------------------------------------
(* Versioned read resolver *)

\* the key-value pair of the nearest ancestor of v among kvs (a set of
\* <<key, value>> of one type-key): a tombstone at an ancestor hides the
\* value at it and at every further ancestor
RECURSIVE ResolveFrom(_, _)
ResolveFrom(kvs, v) ==
    LET tomb == {kv \in kvs : VersionFromKey(kv[1]) = v /\ IsTombstone(kv[1])}
        data == {kv \in kvs : VersionFromKey(kv[1]) = v /\ ~IsTombstone(kv[1])}
    IN IF tomb # {} THEN Nil
       ELSE IF data # {} THEN CHOOSE kv \in data : TRUE
       ELSE IF v = RootVersion THEN Nil
       ELSE ResolveFrom(kvs, Parent(v))

VersionedKeyValue(v, kvs) == ResolveFrom(kvs, v)

----------------------------------------------------------------------------
(* basholeveldb engine *)

\* all stored versions of one type-key, with their values
getSingleKeyVersions(s, tk) ==
    {<<k, s[k]>> : k \in {x \in DOMAIN s :
        /\ TKeyFromKey(x) = tk
        /\ VersionKeyLE(MinVersionKey(tk), x)
        /\ VersionKeyLE(x, MaxVersionKey(tk))}}

LevelDB_Get(s, v, tk) ==
    LET kv == VersionedKeyValue(v, getSingleKeyVersions(s, tk))
    IN IF kv # Nil THEN kv[2] ELSE Nil

LevelDB_Put_NoTombstoneDelete(s, v, tk, val) ==
    WriteBatch(s, << <<"put", ConstructKey(v, tk), val>> >>)

LevelDB_Put(s, v, tk, val) ==
    WriteBatch(s, << <<"del", TombstoneKey(v, tk)>>,
                     <<"put", ConstructKey(v, tk), val>> >>)

LevelDB_Delete_NoTombstone(s, v, tk) ==
    WriteBatch(s, << <<"del", ConstructKey(v, tk)>> >>)

\* variant: the tombstone is taken away when there is no value to delete
LevelDB_Delete_Toggle(s, v, tk) ==
    IF ConstructKey(v, tk) \in DOMAIN s \/ TombstoneKey(v, tk) \notin DOMAIN s
    THEN WriteBatch(s, << <<"del", ConstructKey(v, tk)>>,
                          <<"put", TombstoneKey(v, tk), EmptyValue>> >>)
    ELSE WriteBatch(s, << <<"del", TombstoneKey(v, tk)>> >>)

LevelDB_Delete(s, v, tk) ==
    WriteBatch(s, << <<"del", ConstructKey(v, tk)>>,
                     <<"put", TombstoneKey(v, tk), EmptyValue>> >>)

----------------------------------------------------------------------------
(* gbucket engine *)

\* byte order of two physical keys
KeyLE(k1, k2) ==
    \/ k1[1] < k2[1]
    \/ k1[1] = k2[1] /\ VersionKeyLE(k1, k2)

\* ascending sequence of a set of keys (sort.Sort(KeyArray))
RECURSIVE SortKeys(_)
SortKeys(ks) ==
    IF ks = {} THEN <<>>
    ELSE LET m == CHOOSE k \in ks : \A o \in ks : KeyLE(k, o)
         IN <<m>> \o SortKeys(ks \ {m})

getV(b, k) == RawGet(b, k)

\* all object names within [minKey, maxKey], tombstones included
getKeysInRangeRaw(b, minKey, maxKey) ==
    {k \in DOMAIN b : KeyLE(minKey, k) /\ KeyLE(k, maxKey)}

\* the keys of the versions visible at v, one per type-key, ascending
getKeysInRange(b, v, tkBeg, tkEnd) ==
    LET keys == getKeysInRangeRaw(b, MinVersionKey(tkBeg), MaxVersionKey(tkEnd))
        tks == {TKeyFromKey(k) : k \in keys}
        pick(tk) == VersionedKeyValue(v,
                        {<<k, EmptyValue>> : k \in {x \in keys : TKeyFromKey(x) = tk}})
    IN SortKeys({pick(tk)[1] : tk \in {t \in tks : pick(t) # Nil}})

\* variant: the key of the context's version is read directly at every
\* version, as it is at the root
GBucket_Get_Direct(b, v, tk) == getV(b, ConstructKey(v, tk))

GBucket_Get(b, v, tk) ==
    IF RootVersion # v
    THEN LET keys == getKeysInRange(b, v, tk, tk)
         IN IF Len(keys) = 0 THEN Nil ELSE getV(b, keys[1])
    ELSE getV(b, ConstructKey(RootVersion, tk))

\* one buffered operation executed against the bucket: <<new bucket, error>>
ExecOp(b, op) ==
    IF op[1] = "delOp"
    THEN <<RawDelete(b, op[2]), op[2] \notin DOMAIN b>>
    ELSE IF op[1] = "delOpIgnoreExists"
    THEN <<RawDelete(b, op[2]), FALSE>>
    ELSE <<RawPut(b, op[2], op[3]), FALSE>>

\* Flush starts one goroutine per buffered operation and waits for all of
\* them; ord is the order in which the operations reach the bucket
RECURSIVE Flush(_, _, _)
Flush(b, ops, ord) ==
    IF ord = <<>> THEN <<b, FALSE>>
    ELSE LET r == ExecOp(b, ops[Head(ord)])
             rest == Flush(r[1], ops, Tail(ord))
         IN <<rest[1], r[2] \/ rest[2]>>

Orders(n) == {o \in [1..n -> 1..n] : \A i, j \in 1..n : i # j => o[i] # o[j]}

goBuffer_Put_NoTombstoneDelete(v, tk, val) ==
    << <<"putOp", ConstructKey(v, tk), val>> >>

goBuffer_Put(v, tk, val) ==
    << <<"delOpIgnoreExists", TombstoneKey(v, tk)>>,
       <<"putOp", ConstructKey(v, tk), val>> >>

goBuffer_Delete(v, tk) ==
    << <<"delOp", ConstructKey(v, tk)>>,
       <<"putOp", TombstoneKey(v, tk), EmptyValue>> >>

----------------------------------------------------------------------------
(* labels64: blocks, label index and the per-block relabeling *)

NumBlockHandlers == 2
Shards == 0..(NumBlockHandlers - 1)
Blocks == {1, 2, 3}
Calls == {1, 2}

\* the shard of a block: izyx.Hash(numBlockHandlers)
Hash(b) == b % NumBlockHandlers

NewBlockTKeyByCoord(b) == b
NewLabelIndexTKey(l) == 100 + l

IsNil(x) == x = Nil
Same(a, b) == IF IsNil(a) THEN IsNil(b) ELSE IF IsNil(b) THEN FALSE ELSE a = b

Range(q) == {q[i] : i \in 1..Len(q)}

RECURSIVE SortInts(_)
SortInts(S) ==
    IF S = {} THEN <<>>
    ELSE LET m == CHOOSE x \in S : \A y \in S : x <= y
         IN <<m>> \o SortInts(S \ {m})

\* Meta = <<voxels, blocks>>, blocks an ascending list of block coordinates.
\* A uint64 voxel count is written as the integer it is congruent to.
Meta(voxels, blocks) == <<voxels, blocks>>
MetaVoxels(m) == m[1]
MetaBlocks(m) == m[2]
EmptyMeta == Meta(0, <<>>)

\* IZYXSlice.Merge: sorted-set union; IZYXSlice.Split: sorted-set difference
BlocksMerge(a, b) == SortInts(Range(a) \cup Range(b))
BlocksSplit(a, rm) == SelectSeq(a, LAMBDA x : x \notin Range(rm))

\* the Meta of a set of labels at version v: voxels summed, blocks merged;
\* a label with no index entry adds nothing
RECURSIVE GetLabelMeta(_, _, _)
GetLabelMeta(s, v, ls) ==
    IF ls = {} THEN EmptyMeta
    ELSE LET l == CHOOSE x \in ls : TRUE
             m == LevelDB_Get(s, v, NewLabelIndexTKey(l))
             rest == GetLabelMeta(s, v, ls \ {l})
         IN IF IsNil(m) THEN rest
            ELSE Meta(MetaVoxels(m) + MetaVoxels(rest),
                      BlocksMerge(MetaBlocks(m), MetaBlocks(rest)))

\* mergeBlock's loop: every voxel whose label is merged becomes the target
mergeRelabel(data, merged, target) ==
    [i \in DOMAIN data |-> IF data[i] \in merged THEN target ELSE data[i]]

\* variant: the two labels are exchanged
replaceLabel_Swap(data, fromLabel, toLabel) ==
    << [i \in DOMAIN data |-> IF data[i] = fromLabel THEN toLabel
                              ELSE IF data[i] = toLabel THEN fromLabel
                              ELSE data[i]],
       Cardinality({i \in DOMAIN data : data[i] = fromLabel}) >>

\* replaceLabel: <<data, splitVoxels>>
replaceLabel(data, fromLabel, toLabel) ==
    << [i \in DOMAIN data |-> IF data[i] = fromLabel THEN toLabel ELSE data[i]],
       Cardinality({i \in DOMAIN data : data[i] = fromLabel}) >>

\* the voxels (block-local indices) covered by runs <<start, length>>
RunVoxels(rles) ==
    UNION {{rles[k][1] + n : n \in 0..(rles[k][2] - 1)} : k \in 1..Len(rles)}

RECURSIVE RunLength(_)
RunLength(rles) == IF rles = <<>> THEN 0 ELSE Head(rles)[2] + RunLength(Tail(rles))

\* variant: the offset of a run in the block is one voxel low
splitLabel_OffsetLow(data, rles, oldLabel, newLabel) ==
    LET d == [i \in DOMAIN data |->
                 IF (i + 1) \in RunVoxels(rles) THEN newLabel ELSE data[i]]
    IN <<d, RunLength(rles), \E i \in DOMAIN d : d[i] = oldLabel>>

\* splitLabel: <<data, splitVoxels, oldRemains>>; every voxel of a run is
\* set to the new label, whatever its label was
splitLabel(data, rles, oldLabel, newLabel) ==
    LET d == [i \in DOMAIN data |-> IF i \in RunVoxels(rles) THEN newLabel ELSE data[i]]
    IN <<d, RunLength(rles), \E i \in DOMAIN d : d[i] = oldLabel>>

\* variant: goBatch.Put leaves the tombstone of its version in place
goBatch_Put_KeepTombstone(v, tk, val) ==
    << <<"put", ConstructKey(v, tk), val>>,
       <<"put", ConstructKey(v, tk), val>> >>

\* levigo goBatch.Put / goBatch.Delete in a versioned context
goBatch_Put(v, tk, val) ==
    << <<"del", TombstoneKey(v, tk)>>,
       <<"put", ConstructKey(v, tk), val>>,
       <<"put", ConstructKey(v, tk), val>> >>

\* variant: the key that holds the visible value, at the root, is removed
goBatch_Delete_StoredKey(v, tk) ==
    << <<"put", TombstoneKey(v, tk), EmptyValue>>,
       <<"del", ConstructKey(RootVersion, tk)>> >>

goBatch_Delete(v, tk) ==
    << <<"put", TombstoneKey(v, tk), EmptyValue>>,
       <<"del", ConstructKey(v, tk)>> >>

RECURSIVE goBatch_DeleteAll(_, _)
goBatch_DeleteAll(v, tks) ==
    IF tks = {} THEN <<>>
    ELSE LET tk == CHOOSE x \in tks : TRUE
         IN goBatch_Delete(v, tk) \o goBatch_DeleteAll(v, tks \ {tk})

----------------------------------------------------------------------------
(* WaitGroup of a mutation id, dirty-labels set *)

MutCount(wg, m) == IF m \in DOMAIN wg THEN wg[m] ELSE 0
MutAdd(wg, m) == [x \in (DOMAIN wg) \cup {m} |-> IF x = m THEN MutCount(wg, m) + 1 ELSE wg[x]]
MutDone(wg, m) == [wg EXCEPT ![m] = @ - 1]
MutDelete(wg, m) == [x \in (DOMAIN wg) \ {m} |-> wg[x]]

OpLabels(op, toLabel) ==
    IF op.kind = "merge" THEN {op.target} \cup op.merged ELSE {op.from, toLabel}

\* labels.MergeStart / labels.SplitStart reject a request one of whose labels
\* is in flight at the same version
StartRejects(d, v, ls) == \E l \in ls : <<v, l>> \in d
MarkDirty(d, v, ls) == d \cup {<<v, l>> : l \in ls}
ClearDirty(d, v, ls) == d \ {<<v, l>> : l \in ls}

----------------------------------------------------------------------------
(* Specification of the key-value engines: every operation is issued to   *)
(* both engines                                                           *)

NoWrite == <<"none">>
Deleted == <<"del">>

\* the merge/split pipeline is not running
MSIdle ==
    /\ openV = RootVersion
    /\ call = <<>>
    /\ mutateCh = <<>>
    /\ worker = <<>>
    /\ mutWG = <<>>
    /\ nextMutID = 1
    /\ dirty = {}
    /\ updating = 0
    /\ maxLabel = 0
    /\ fails = 0
    /\ seqBlock = <<>>
    /\ blkFailed = <<>>

\* no range call and no Flush is running
RangeIdle ==
    /\ rcall = <<>>
    /\ prod = <<>>
    /\ cons = <<>>
    /\ flush = <<>>
    /\ redone = FALSE

KVInit ==
    /\ ldb = EmptyStore
    /\ bucket = EmptyStore
    /\ hist = [tk \in TKeys |-> [v \in Versions |-> NoWrite]]
    /\ nops = 0
    /\ MSIdle
    /\ RangeIdle

Put(v, tk, val) ==
    /\ nops < MaxOps
    /\ ldb' = LevelDB_Put(ldb, v, tk, val)
    /\ \E ord \in Orders(Len(goBuffer_Put(v, tk, val))) :
           bucket' = Flush(bucket, goBuffer_Put(v, tk, val), ord)[1]
    /\ hist' = [hist EXCEPT ![tk][v] = val]
    /\ nops' = nops + 1
    /\ redone' = FALSE
    /\ UNCHANGED <<msVars, rgVars, flush>>

Delete(v, tk) ==
    /\ nops < MaxOps
    /\ ldb' = LevelDB_Delete(ldb, v, tk)
    /\ \E ord \in Orders(Len(goBuffer_Delete(v, tk))) :
           bucket' = Flush(bucket, goBuffer_Delete(v, tk), ord)[1]
    /\ hist' = [hist EXCEPT ![tk][v] = Deleted]
    /\ nops' = nops + 1
    /\ redone' = (hist[tk][v] = Deleted)
    /\ UNCHANGED <<msVars, rgVars, flush>>

KVNext ==
    \/ \E v \in Versions, tk \in TKeys, val \in Values : Put(v, tk, val)
    \/ \E v \in Versions, tk \in TKeys : Delete(v, tk)

Spec == KVInit /\ [][KVNext]_vars

----------------------------------------------------------------------------
(* Claims about the key-value engines *)

\* the write nearest to v on v's ancestor path, as <<version, what>>
RECURSIVE NearestWrite(_, _, _)
NearestWrite(h, tk, v) ==
    IF h[tk][v] # NoWrite THEN <<v, h[tk][v]>>
    ELSE IF v = RootVersion THEN <<0, NoWrite>>
    ELSE NearestWrite(h, tk, Parent(v))

\* C1: after Put(tk, X) at version A, Get(tk) at A and at every descendant D
\* with no closer Put or Delete of tk on D's ancestor path returns X, on both
\* engines, whatever was written to other type-keys or off that path.
C1_AncestorVisibility ==
    \A tk \in TKeys, d \in Versions :
        LET w == NearestWrite(hist, tk, d)
        IN w[2] \in Values =>
              /\ LevelDB_Get(ldb, d, tk) = w[2]
              /\ GBucket_Get(bucket, d, tk) = w[2]

\* a value written at the root is read at a grandchild, while the other
\* type-key and a sibling branch have been written too
C1_Witness ==
    \E tk \in TKeys, d \in Versions :
        /\ d # RootVersion /\ Parent(d) # RootVersion
        /\ NearestWrite(hist, tk, d) = <<RootVersion, <<"x">>>>
        /\ LevelDB_Get(ldb, d, tk) = <<"x">>
        /\ \E o \in TKeys \ {tk} : hist[o][d] # NoWrite
        /\ \E s \in Versions : ~IsAncestorOrSelf(s, d) /\ hist[tk][s] # NoWrite

\* C2: after Delete(tk) at version B, Get(tk) returns absent at B and at every
\* descendant D with no closer write, while Get(tk) at an ancestor A of B
\* still returns the value stored at A.
C2_TombstoneMasks ==
    \A tk \in TKeys, b \in Versions :
        hist[tk][b] = Deleted =>
            /\ \A d \in Versions :
                  NearestWrite(hist, tk, d) = <<b, Deleted>> =>
                      /\ LevelDB_Get(ldb, d, tk) = Nil
                      /\ GBucket_Get(bucket, d, tk) = Nil
            /\ \A a \in AncestorSet(b) \ {b} :
                  hist[tk][a] \in Values =>
                      /\ LevelDB_Get(ldb, a, tk) = hist[tk][a]
                      /\ GBucket_Get(bucket, a, tk) = hist[tk][a]

\* a value at the root, a tombstone at its child, read at the grandchild
C2_Witness ==
    \E tk \in TKeys, b, d \in Versions :
        /\ Parent(b) = RootVersion /\ b # RootVersion /\ Parent(d) = b
        /\ hist[tk][RootVersion] \in Values
        /\ hist[tk][b] = Deleted
        /\ hist[tk][d] = NoWrite
        /\ LevelDB_Get(ldb, d, tk) = Nil
        /\ LevelDB_Get(ldb, RootVersion, tk) = hist[tk][RootVersion]

----------------------------------------------------------------------------
(* Specification of the merge/split pipeline *)

Labels == {1, 2, 3, 4}
InitBlocks == (1 :> <<1, 1>>) @@ (2 :> <<2, 4>>) @@ (3 :> <<3, 4>>)

InitMeta(l) ==
    Meta(Cardinality({<<b, i>> \in Blocks \X {1, 2} : InitBlocks[b][i] = l}),
         SortInts({b \in Blocks : \E i \in {1, 2} : InitBlocks[b][i] = l}))

\* blocks and label index of the instance, stored at the root version
InitStore ==
    [k \in {ConstructKey(RootVersion, NewBlockTKeyByCoord(b)) : b \in Blocks}
           \cup {ConstructKey(RootVersion, NewLabelIndexTKey(l)) : l \in Labels} |->
        IF TKeyFromKey(k) \in Blocks THEN InitBlocks[TKeyFromKey(k)]
        ELSE InitMeta(TKeyFromKey(k) - 100)]

\* the requests a caller may make
MergeOps ==
    { [kind |-> "merge", target |-> 1, merged |-> {2}, from |-> 0, split |-> <<>>],
      [kind |-> "merge", target |-> 3, merged |-> {4}, from |-> 0, split |-> <<>>] }
SplitOps ==
    { [kind |-> "split", target |-> 0, merged |-> {}, from |-> 4,
       split |-> (2 :> << <<2, 1>> >>) @@ (3 :> << <<2, 1>> >>)],
      [kind |-> "split", target |-> 0, merged |-> {}, from |-> 4,
       split |-> (2 :> << <<1, 2>> >>)],
      [kind |-> "split", target |-> 3, merged |-> {}, from |-> 4,
       split |-> (3 :> << <<2, 1>> >>)],
      [kind |-> "split", target |-> 4, merged |-> {}, from |-> 4,
       split |-> (3 :> << <<2, 1>> >>)] }
CoarseOps ==
    { [kind |-> "coarse", target |-> 0, merged |-> {}, from |-> 4,
       split |-> << <<3, 1>> >>] }

NoOp == [kind |-> "none", target |-> 0, merged |-> {}, from |-> 0, split |-> <<>>]

IdleCall ==
    [pc |-> "idle", op |-> NoOp, ret |-> "pending", toLabel |-> 0,
     blocks |-> <<>>, targetVoxels |-> 0, mergedVoxels |-> 0,
     toSend |-> {}, mutID |-> 0, deleteBlks |-> <<>>, coll |-> "none",
     collBlk |-> 0, ev |-> {}, bc |-> 0, committed |-> FALSE, blkErr |-> FALSE,
     perr |-> FALSE, reserved |-> FALSE, rejected |-> FALSE, pre |-> <<>>]

IdleWorker == [pc |-> "idle", c |-> 0, block |-> 0, data |-> <<>>]

MSInit ==
    /\ ldb = InitStore
    /\ bucket = EmptyStore
    /\ hist = <<>>
    /\ nops = 0
    /\ openV \in {RootVersion, 2}
    /\ call = [c \in Calls |-> IdleCall]
    /\ mutateCh = [n \in Shards |-> <<>>]
    /\ worker = [n \in Shards |-> IdleWorker]
    /\ mutWG = <<>>
    /\ nextMutID = 1
    /\ dirty = {}
    /\ updating = 0
    /\ maxLabel = 4
    /\ fails = 0
    /\ seqBlock = InitBlocks
    /\ blkFailed = [b \in Blocks |-> FALSE]
    /\ RangeIdle

\* the root version is the parent of the other version requests are made at:
\* a version with a child is locked
Locked(v) == v = RootVersion

Set(c, r) == [call EXCEPT ![c] = r @@ @]

CanFail == fails < MaxFails

\* the label index entries of a set of labels as stored when a request starts
StoredMetas(ls) == [l \in ls |-> LevelDB_Get(ldb, openV, NewLabelIndexTKey(l))]

\* the block operation of request c on block data
ApplyOp(c, b, data) ==
    IF call[c].op.kind = "merge"
    THEN mergeRelabel(data, call[c].op.merged, call[c].op.target)
    ELSE splitLabel(data, call[c].op.split[b], call[c].op.from, call[c].toLabel)[1]

(* ---- MergeLabels ---- *)

\* variant: the error of labels.MergeStart is dropped
MergeLabels_Reserve_IgnoreReject(c, op) ==
    /\ call[c].pc = "idle"
    /\ updating' = updating + 1
    /\ call' = Set(c, [pc |-> "notifyStart", op |-> op,
                       reserved |-> ~StartRejects(dirty, openV, OpLabels(op, 0)),
                       rejected |-> StartRejects(dirty, openV, OpLabels(op, 0)),
                       pre |-> StoredMetas(OpLabels(op, 0))])
    /\ dirty' = MarkDirty(dirty, openV, OpLabels(op, 0))
    /\ UNCHANGED <<ldb, kvVars, openV, mutateCh, worker, mutWG, nextMutID,
                   maxLabel, fails, seqBlock, blkFailed>>

\* StartUpdate, then labels.MergeStart marks the labels dirty or rejects
MergeLabels_Reserve(c, op) ==
    /\ call[c].pc = "idle"
    /\ updating' = updating + 1
    /\ IF StartRejects(dirty, openV, OpLabels(op, 0))
       THEN /\ call' = Set(c, [pc |-> "done", op |-> op, ret |-> "err",
                               rejected |-> TRUE])
            /\ dirty' = dirty
       ELSE /\ call' = Set(c, [pc |-> "notifyStart", op |-> op, reserved |-> TRUE,
                               pre |-> StoredMetas(OpLabels(op, 0))])
            /\ dirty' = MarkDirty(dirty, openV, OpLabels(op, 0))
    /\ UNCHANGED <<ldb, kvVars, openV, mutateCh, worker, mutWG, nextMutID,
                   maxLabel, fails, seqBlock, blkFailed>>

\* variant: the goroutine is started without MergeStartEvent
MergeLabels_NotifyStart_NoEvent(c) ==
    /\ call[c].pc = "notifyStart" /\ call[c].op.kind = "merge"
    /\ \/ /\ call' = Set(c, [pc |-> "loadMeta", ret |-> "nil"])
          /\ UNCHANGED <<updating, fails>>
       \/ /\ CanFail
          /\ fails' = fails + 1
          /\ updating' = updating - 1
          /\ call' = Set(c, [pc |-> "done", ret |-> "err"])
    /\ UNCHANGED <<ldb, kvVars, openV, mutateCh, worker, mutWG, nextMutID,
                   dirty, maxLabel, seqBlock, blkFailed>>

\* MergeStartEvent is published; MergeLabels returns and the rest runs in a
\* goroutine
MergeLabels_NotifyStart(c) ==
    /\ call[c].pc = "notifyStart" /\ call[c].op.kind = "merge"
    /\ \/ /\ call' = Set(c, [pc |-> "loadMeta", ret |-> "nil",
                             ev |-> call[c].ev \cup {"MergeStart"}])
          /\ UNCHANGED <<updating, fails>>
       \/ /\ CanFail
          /\ fails' = fails + 1
          /\ updating' = updating - 1
          /\ call' = Set(c, [pc |-> "done", ret |-> "err"])
    /\ UNCHANGED <<ldb, kvVars, openV, mutateCh, worker, mutWG, nextMutID,
                   dirty, maxLabel, seqBlock, blkFailed>>

\* the goroutine loads the Meta of the target and of the merged labels
MergeLabels_LoadMeta(c) ==
    /\ call[c].pc = "loadMeta"
    /\ \/ LET targetMeta == GetLabelMeta(ldb, openV, {call[c].op.target})
              mergedMeta == GetLabelMeta(ldb, openV, call[c].op.merged)
          IN /\ call' = Set(c, [pc |-> "notifyBlock",
                    blocks |-> BlocksMerge(MetaBlocks(targetMeta), MetaBlocks(mergedMeta)),
                    targetVoxels |-> MetaVoxels(targetMeta),
                    mergedVoxels |-> MetaVoxels(mergedMeta)])
             /\ UNCHANGED <<updating, fails>>
       \/ /\ CanFail
          /\ fails' = fails + 1
          /\ updating' = updating - 1
          /\ call' = Set(c, [pc |-> "done"])
    /\ UNCHANGED <<ldb, kvVars, openV, mutateCh, worker, mutWG, nextMutID,
                   dirty, maxLabel, seqBlock, blkFailed>>

\* variant: processMerge goes on to the block operations without publishing
\* MergeBlockEvent
processMerge_Notify_NoEvent(c) ==
    /\ call[c].pc = "notifyBlock"
    /\ \/ /\ call' = Set(c, [pc |-> "enqueue", mutID |-> nextMutID,
                             toSend |-> Range(call[c].blocks)])
          /\ nextMutID' = nextMutID + 1
          /\ fails' = fails
       \/ /\ CanFail
          /\ fails' = fails + 1
          /\ call' = Set(c, [pc |-> "stop", perr |-> TRUE])
          /\ nextMutID' = nextMutID
    /\ UNCHANGED <<ldb, kvVars, openV, mutateCh, worker, mutWG, dirty,
                   updating, maxLabel, seqBlock, blkFailed>>

\* processMerge: MergeBlockEvent, then a new mutation id
processMerge_Notify(c) ==
    /\ call[c].pc = "notifyBlock"
    /\ \/ /\ call' = Set(c, [pc |-> "enqueue", mutID |-> nextMutID,
                             toSend |-> Range(call[c].blocks),
                             ev |-> call[c].ev \cup {"MergeBlock"}])
          /\ nextMutID' = nextMutID + 1
          /\ fails' = fails
       \/ /\ CanFail
          /\ fails' = fails + 1
          /\ call' = Set(c, [pc |-> "stop", perr |-> TRUE])
          /\ nextMutID' = nextMutID
    /\ UNCHANGED <<ldb, kvVars, openV, mutateCh, worker, mutWG, dirty,
                   updating, maxLabel, seqBlock, blkFailed>>

\* variant: the shard is chosen by the request, not by the block
Enqueue_ByRequest(c, b) ==
    /\ Len(mutateCh[c % NumBlockHandlers]) < ChanCap
    /\ mutWG' = MutAdd(mutWG, call[c].mutID)
    /\ mutateCh' = [mutateCh EXCEPT ![c % NumBlockHandlers] =
                        Append(@, [c |-> c, block |-> b])]
    /\ seqBlock' = [seqBlock EXCEPT ![b] = ApplyOp(c, b, @)]
    /\ call' = Set(c, [toSend |-> call[c].toSend \ {b}])

\* MutAdd and the send of one block operation to the block's shard
Enqueue(c, b) ==
    /\ Len(mutateCh[Hash(b)]) < ChanCap
    /\ mutWG' = MutAdd(mutWG, call[c].mutID)
    /\ mutateCh' = [mutateCh EXCEPT ![Hash(b)] = Append(@, [c |-> c, block |-> b])]
    /\ seqBlock' = [seqBlock EXCEPT ![b] = ApplyOp(c, b, @)]
    /\ call' = Set(c, [toSend |-> call[c].toSend \ {b}])

\* delta.Blocks is sent in ascending order
processMerge_Enqueue(c) ==
    /\ call[c].pc = "enqueue" /\ call[c].op.kind = "merge"
    /\ call[c].toSend # {}
    /\ Enqueue(c, CHOOSE b \in call[c].toSend : \A o \in call[c].toSend : b <= o)
    /\ UNCHANGED <<ldb, kvVars, openV, worker, nextMutID, dirty, updating,
                   maxLabel, fails, blkFailed>>

\* MutWait returns once every block operation of the mutation is done
MutWaitReturns(c) == MutCount(mutWG, call[c].mutID) = 0

\* variant: the index batch is built without waiting for the block operations
processMerge_Wait_NoBarrier(c) ==
    /\ call[c].pc = "enqueue" /\ call[c].op.kind = "merge"
    /\ call[c].toSend = {}
    /\ mutWG' = MutDelete(mutWG, call[c].mutID)
    /\ call' = Set(c, [pc |-> "commit"])
    /\ UNCHANGED <<ldb, kvVars, openV, mutateCh, worker, nextMutID, dirty,
                   updating, maxLabel, fails, seqBlock, blkFailed>>

\* variant: a logged block error ends the merge before its index batch
processMerge_Wait_AbortOnError(c) ==
    /\ call[c].pc = "enqueue" /\ call[c].op.kind = "merge"
    /\ call[c].toSend = {}
    /\ MutWaitReturns(c)
    /\ mutWG' = MutDelete(mutWG, call[c].mutID)
    /\ call' = Set(c, [pc |-> IF call[c].blkErr THEN "stop" ELSE "commit"])
    /\ UNCHANGED <<ldb, kvVars, openV, mutateCh, worker, nextMutID, dirty,
                   updating, maxLabel, fails, seqBlock, blkFailed>>

processMerge_Wait(c) ==
    /\ call[c].pc = "enqueue" /\ call[c].op.kind = "merge"
    /\ call[c].toSend = {}
    /\ MutWaitReturns(c)
    /\ mutWG' = MutDelete(mutWG, call[c].mutID)
    /\ call' = Set(c, [pc |-> "commit"])
    /\ UNCHANGED <<ldb, kvVars, openV, mutateCh, worker, nextMutID, dirty,
                   updating, maxLabel, fails, seqBlock, blkFailed>>

\* variant: the voxels of the merged labels are not added to the target
processMerge_Batch_TargetVoxelsOnly(c) ==
    goBatch_Put(openV, NewLabelIndexTKey(call[c].op.target),
                Meta(call[c].targetVoxels, call[c].blocks))
    \o goBatch_DeleteAll(openV, {NewLabelIndexTKey(m) : m \in call[c].op.merged})

\* the batch of the label index: the Meta of the target, a tombstone for
\* every merged label
processMerge_Batch(c) ==
    goBatch_Put(openV, NewLabelIndexTKey(call[c].op.target),
                Meta(call[c].targetVoxels + call[c].mergedVoxels, call[c].blocks))
    \o goBatch_DeleteAll(openV, {NewLabelIndexTKey(m) : m \in call[c].op.merged})

\* variant: the error of batch.Commit is dropped
processMerge_Commit_IgnoreError(c) ==
    /\ call[c].pc = "commit" /\ call[c].op.kind = "merge"
    /\ \/ /\ ldb' = WriteBatch(ldb, processMerge_Batch(c))
          /\ call' = Set(c, [pc |-> "events", committed |-> TRUE])
          /\ fails' = fails
       \/ /\ CanFail
          /\ fails' = fails + 1
          /\ ldb' = ldb
          /\ call' = Set(c, [pc |-> "events"])
    /\ UNCHANGED <<kvVars, openV, mutateCh, worker, mutWG, nextMutID, dirty,
                   updating, maxLabel, seqBlock, blkFailed>>

processMerge_Commit(c) ==
    /\ call[c].pc = "commit" /\ call[c].op.kind = "merge"
    /\ \/ /\ ldb' = WriteBatch(ldb, processMerge_Batch(c))
          /\ call' = Set(c, [pc |-> "events", committed |-> TRUE])
          /\ fails' = fails
       \/ /\ CanFail
          /\ fails' = fails + 1
          /\ ldb' = ldb
          /\ call' = Set(c, [pc |-> "stop", perr |-> TRUE])
    /\ UNCHANGED <<kvVars, openV, mutateCh, worker, mutWG, nextMutID, dirty,
                   updating, maxLabel, seqBlock, blkFailed>>

\* ChangeSizeEvent and MergeEndEvent
processMerge_Events(c) ==
    /\ call[c].pc = "events" /\ call[c].op.kind = "merge"
    /\ call' = Set(c, [pc |-> "stop", ev |-> call[c].ev \cup {"ChangeSize", "MergeEnd"}])
    /\ UNCHANGED <<ldb, kvVars, openV, mutateCh, worker, mutWG, nextMutID,
                   dirty, updating, maxLabel, fails, seqBlock, blkFailed>>

\* labels.MergeStop and the deferred StopUpdate
MergeLabels_Stop(c) ==
    /\ call[c].pc = "stop" /\ call[c].op.kind = "merge"
    /\ dirty' = ClearDirty(dirty, openV, OpLabels(call[c].op, 0))
    /\ updating' = updating - 1
    /\ call' = Set(c, [pc |-> "done"])
    /\ UNCHANGED <<ldb, kvVars, openV, mutateCh, worker, mutWG, nextMutID,
                   maxLabel, fails, seqBlock, blkFailed>>

(* ---- SplitLabels, SplitCoarseLabels ---- *)

\* the label is taken or allocated, then labels.SplitStart marks the old and
\* the new label dirty or rejects
SplitLabels_Reserve(c, op) ==
    /\ call[c].pc = "idle"
    /\ \/ LET toLabel == IF op.target # 0 THEN op.target ELSE maxLabel + 1
          IN /\ maxLabel' = IF op.target # 0 THEN maxLabel ELSE maxLabel + 1
             /\ IF StartRejects(dirty, openV, OpLabels(op, toLabel))
                THEN /\ call' = Set(c, [pc |-> "done", op |-> op, ret |-> "err",
                                        toLabel |-> toLabel, rejected |-> TRUE])
                     /\ dirty' = dirty
                ELSE /\ call' = Set(c, [pc |-> "notifyStart", op |-> op,
                                        toLabel |-> toLabel, reserved |-> TRUE,
                                        pre |-> StoredMetas(OpLabels(op, toLabel))])
                     /\ dirty' = MarkDirty(dirty, openV, OpLabels(op, toLabel))
             /\ fails' = fails
       \/ /\ op.target = 0 /\ CanFail
          /\ fails' = fails + 1
          /\ call' = Set(c, [pc |-> "done", op |-> op, ret |-> "err"])
          /\ UNCHANGED <<dirty, maxLabel>>
    /\ UNCHANGED <<ldb, kvVars, openV, mutateCh, worker, mutWG, nextMutID,
                   updating, seqBlock, blkFailed>>

\* SplitStartEvent; the RLEs are read and partitioned by block; processSplit
\* starts: StartUpdate, a new mutation id, the collector goroutine
SplitLabels_NotifyStart(c) ==
    /\ call[c].pc = "notifyStart" /\ call[c].op.kind = "split"
    /\ \/ /\ call' = Set(c, [pc |-> "enqueue", mutID |-> nextMutID,
                             blocks |-> SortInts(DOMAIN call[c].op.split),
                             toSend |-> DOMAIN call[c].op.split,
                             coll |-> "recv",
                             ev |-> call[c].ev \cup {"SplitStart"}])
          /\ nextMutID' = nextMutID + 1
          /\ updating' = updating + 1
          /\ UNCHANGED <<dirty, fails>>
       \/ /\ CanFail
          /\ fails' = fails + 1
          /\ call' = Set(c, [pc |-> "done", ret |-> "err"])
          /\ dirty' = ClearDirty(dirty, openV, OpLabels(call[c].op, call[c].toLabel))
          /\ UNCHANGED <<nextMutID, updating>>
    /\ UNCHANGED <<ldb, kvVars, openV, mutateCh, worker, mutWG, maxLabel,
                   seqBlock, blkFailed>>

\* the split map is ranged over in no particular order
processSplit_Enqueue(c) ==
    /\ call[c].pc = "enqueue" /\ call[c].op.kind = "split"
    /\ \E b \in call[c].toSend : Enqueue(c, b)
    /\ UNCHANGED <<ldb, kvVars, openV, worker, nextMutID, dirty, updating,
                   maxLabel, fails, blkFailed>>

\* the two ChangeSizeEvents of a fine split follow the last send
processSplit_SizeEvents(c) ==
    /\ call[c].pc = "enqueue" /\ call[c].op.kind = "split"
    /\ call[c].toSend = {}
    /\ call' = Set(c, [pc |-> "wait", ev |-> call[c].ev \cup {"ChangeSize"}])
    /\ UNCHANGED <<ldb, kvVars, openV, mutateCh, worker, mutWG, nextMutID,
                   dirty, updating, maxLabel, fails, seqBlock, blkFailed>>

\* MutWait, MutDelete, close(doneCh)
processSplit_Wait(c) ==
    /\ call[c].pc = "wait"
    /\ MutWaitReturns(c)
    /\ mutWG' = MutDelete(mutWG, call[c].mutID)
    /\ call' = Set(c, [pc |-> "indices"])
    /\ UNCHANGED <<ldb, kvVars, openV, mutateCh, worker, nextMutID, dirty,
                   updating, maxLabel, fails, seqBlock, blkFailed>>

SplitVoxels(op) ==
    LET RECURSIVE Sum(_)
        Sum(bs) == IF bs = {} THEN 0
                   ELSE LET b == CHOOSE x \in bs : TRUE
                        IN RunLength(op.split[b]) + Sum(bs \ {b})
    IN Sum(DOMAIN op.split)

\* the batch of splitIndices: the serialized Meta of the old label is put
\* under the key of the old and under the key of the new label
splitIndices_Batch(c) ==
    LET meta == GetLabelMeta(ldb, openV, {call[c].op.from})
        blocks == BlocksSplit(MetaBlocks(meta), call[c].deleteBlks)
        data == Meta(MetaVoxels(meta) - SplitVoxels(call[c].op), blocks)
    IN goBatch_Put(openV, NewLabelIndexTKey(call[c].op.from), data)
       \o goBatch_Put(openV, NewLabelIndexTKey(call[c].toLabel), data)

splitIndices(c) ==
    /\ call[c].pc = "indices"
    /\ \/ /\ ldb' = WriteBatch(ldb, splitIndices_Batch(c))
          /\ call' = Set(c, [pc |-> "events", committed |-> TRUE])
          /\ UNCHANGED <<dirty, fails>>
       \/ /\ CanFail
          /\ fails' = fails + 1
          /\ ldb' = ldb
          /\ call' = Set(c, [pc |-> "done", ret |-> "err"])
          /\ dirty' = ClearDirty(dirty, openV, OpLabels(call[c].op, call[c].toLabel))
    /\ UNCHANGED <<kvVars, openV, mutateCh, worker, mutWG, nextMutID,
                   updating, maxLabel, seqBlock, blkFailed>>

\* StopUpdate, SplitLabelEvent, SplitEndEvent; SplitLabels returns and its
\* deferred labels.SplitStop runs
processSplit_Events(c) ==
    /\ call[c].pc = "events" /\ call[c].op.kind = "split"
    /\ updating' = updating - 1
    /\ call' = Set(c, [pc |-> "done", ret |-> "nil",
                       ev |-> call[c].ev \cup {"SplitLabel", "SplitEnd"}])
    /\ dirty' = ClearDirty(dirty, openV, OpLabels(call[c].op, call[c].toLabel))
    /\ UNCHANGED <<ldb, kvVars, openV, mutateCh, worker, mutWG, nextMutID,
                   maxLabel, fails, seqBlock, blkFailed>>

\* SplitCoarseLabels: SplitStartEvent
SplitCoarseLabels_NotifyStart(c) ==
    /\ call[c].pc = "notifyStart" /\ call[c].op.kind = "coarse"
    /\ \/ /\ call' = Set(c, [pc |-> "publish", ev |-> call[c].ev \cup {"SplitStart"}])
          /\ UNCHANGED <<dirty, fails>>
       \/ /\ CanFail
          /\ fails' = fails + 1
          /\ call' = Set(c, [pc |-> "done", ret |-> "err"])
          /\ dirty' = ClearDirty(dirty, openV, OpLabels(call[c].op, call[c].toLabel))
    /\ UNCHANGED <<ldb, kvVars, openV, mutateCh, worker, mutWG, nextMutID,
                   updating, maxLabel, seqBlock, blkFailed>>

\* SplitCoarseLabels: the blocks of the runs are sorted and SplitLabelEvent
\* is published; the call returns and its deferred labels.SplitStop runs
SplitCoarseLabels_Publish(c) ==
    /\ call[c].pc = "publish"
    /\ call' = Set(c, [pc |-> "done", ret |-> "nil",
                       blocks |-> SortInts(RunVoxels(call[c].op.split)),
                       ev |-> call[c].ev \cup {"SplitLabel"}])
    /\ dirty' = ClearDirty(dirty, openV, OpLabels(call[c].op, call[c].toLabel))
    /\ UNCHANGED <<ldb, kvVars, openV, mutateCh, worker, mutWG, nextMutID,
                   updating, maxLabel, fails, seqBlock, blkFailed>>

\* the collector goroutine of a fine split appends a received block
collector_Append(c) ==
    /\ call[c].coll = "got"
    /\ call' = Set(c, [coll |-> "recv",
                       deleteBlks |-> Append(call[c].deleteBlks, call[c].collBlk)])
    /\ UNCHANGED <<ldb, kvVars, openV, mutateCh, worker, mutWG, nextMutID,
                   dirty, updating, maxLabel, fails, seqBlock, blkFailed>>

\* the collector goroutine returns once doneCh is closed
collector_Exit(c) ==
    /\ call[c].coll = "recv"
    /\ call[c].pc \in {"indices", "events", "done"}
    /\ call' = Set(c, [coll |-> "exit"])
    /\ UNCHANGED <<ldb, kvVars, openV, mutateCh, worker, mutWG, nextMutID,
                   dirty, updating, maxLabel, fails, seqBlock, blkFailed>>

(* ---- mutateBlock: the goroutine of one shard ---- *)

\* variant: an operation that ends on an error leaves the counter as it is
mutateBlock_Get_NoDone(n) ==
    /\ worker[n].pc = "idle"
    /\ mutateCh[n] # <<>>
    /\ mutateCh' = [mutateCh EXCEPT ![n] = Tail(@)]
    /\ LET msg == Head(mutateCh[n])
           data == LevelDB_Get(ldb, openV, NewBlockTKeyByCoord(msg.block))
       IN \/ /\ ~IsNil(data)
             /\ worker' = [worker EXCEPT ![n] =
                    [pc |-> "have", c |-> msg.c, block |-> msg.block, data |-> data]]
             /\ UNCHANGED <<mutWG, call, fails, blkFailed>>
          \/ /\ IsNil(data) \/ CanFail
             /\ fails' = IF IsNil(data) THEN fails ELSE fails + 1
             /\ mutWG' = mutWG
             /\ call' = Set(msg.c, [blkErr |-> TRUE])
             /\ blkFailed' = [blkFailed EXCEPT ![msg.block] = TRUE]
             /\ worker' = worker
    /\ UNCHANGED <<ldb, kvVars, openV, nextMutID, dirty, updating, maxLabel,
                   seqBlock>>

\* a message is received and its block is read, deserialized and decompressed
mutateBlock_Get(n) ==
    /\ worker[n].pc = "idle"
    /\ mutateCh[n] # <<>>
    /\ mutateCh' = [mutateCh EXCEPT ![n] = Tail(@)]
    /\ LET msg == Head(mutateCh[n])
           data == LevelDB_Get(ldb, openV, NewBlockTKeyByCoord(msg.block))
       IN \/ /\ ~IsNil(data)
             /\ worker' = [worker EXCEPT ![n] =
                    [pc |-> "have", c |-> msg.c, block |-> msg.block, data |-> data]]
             /\ UNCHANGED <<mutWG, call, fails, blkFailed>>
          \/ /\ IsNil(data) \/ CanFail
             /\ fails' = IF IsNil(data) THEN fails ELSE fails + 1
             /\ mutWG' = MutDone(mutWG, call[msg.c].mutID)
             /\ call' = Set(msg.c, [blkErr |-> TRUE])
             /\ blkFailed' = [blkFailed EXCEPT ![msg.block] = TRUE]
             /\ worker' = worker
    /\ UNCHANGED <<ldb, kvVars, openV, nextMutID, dirty, updating, maxLabel,
                   seqBlock>>

\* the block is stored (an error of the store is logged), publishBlockChange,
\* and the deferred MutDone
StoreBlock(n, data, callUpdate) ==
    LET c == worker[n].c
        b == worker[n].block
    IN /\ \/ /\ ldb' = LevelDB_Put(ldb, openV, NewBlockTKeyByCoord(b), data)
             /\ call' = Set(c, [bc |-> call[c].bc + 1] @@ callUpdate)
             /\ UNCHANGED <<fails, blkFailed>>
          \/ /\ CanFail
             /\ fails' = fails + 1
             /\ ldb' = ldb
             /\ call' = Set(c, [bc |-> call[c].bc + 1, blkErr |-> TRUE] @@ callUpdate)
             /\ blkFailed' = [blkFailed EXCEPT ![b] = TRUE]
       /\ mutWG' = MutDone(mutWG, call[c].mutID)
       /\ worker' = [worker EXCEPT ![n] = IdleWorker]

mergeBlock_Put(n) ==
    /\ worker[n].pc = "have"
    /\ call[worker[n].c].op.kind = "merge"
    /\ StoreBlock(n, mergeRelabel(worker[n].data, call[worker[n].c].op.merged,
                                  call[worker[n].c].op.target), <<>>)
    /\ UNCHANGED <<kvVars, openV, mutateCh, nextMutID, dirty, updating,
                   maxLabel, seqBlock>>

\* fine split: a block left without the old label is handed to the collector
\* before the block is stored
splitBlock_Put(n) ==
    /\ worker[n].pc = "have"
    /\ call[worker[n].c].op.kind = "split"
    /\ LET c == worker[n].c
           r == splitLabel(worker[n].data, call[c].op.split[worker[n].block],
                           call[c].op.from, call[c].toLabel)
       IN IF r[3]
          THEN StoreBlock(n, r[1], <<>>)
          ELSE /\ call[c].coll = "recv"
               /\ StoreBlock(n, r[1], [coll |-> "got", collBlk |-> worker[n].block])
    /\ UNCHANGED <<kvVars, openV, mutateCh, nextMutID, dirty, updating,
                   maxLabel, seqBlock>>

MSNext ==
    \/ \E c \in Calls, op \in MergeOps : MergeLabels_Reserve(c, op)
    \/ \E c \in Calls : MergeLabels_NotifyStart(c)
    \/ \E c \in Calls : MergeLabels_LoadMeta(c)
    \/ \E c \in Calls : processMerge_Notify(c)
    \/ \E c \in Calls : processMerge_Enqueue(c)
    \/ \E c \in Calls : processMerge_Wait(c)
    \/ \E c \in Calls : processMerge_Commit(c)
    \/ \E c \in Calls : processMerge_Events(c)
    \/ \E c \in Calls : MergeLabels_Stop(c)
    \/ \E c \in Calls, op \in SplitOps \cup CoarseOps : SplitLabels_Reserve(c, op)
    \/ \E c \in Calls : SplitLabels_NotifyStart(c)
    \/ \E c \in Calls : processSplit_Enqueue(c)
    \/ \E c \in Calls : processSplit_SizeEvents(c)
    \/ \E c \in Calls : processSplit_Wait(c)
    \/ \E c \in Calls : splitIndices(c)
    \/ \E c \in Calls : processSplit_Events(c)
    \/ \E c \in Calls : SplitCoarseLabels_NotifyStart(c)
    \/ \E c \in Calls : SplitCoarseLabels_Publish(c)
    \/ \E c \in Calls : collector_Append(c)
    \/ \E c \in Calls : collector_Exit(c)
    \/ \E n \in Shards : mutateBlock_Get(n)
    \/ \E n \in Shards : mergeBlock_Put(n)
    \/ \E n \in Shards : splitBlock_Put(n)

SpecMS == MSInit /\ [][MSNext]_vars

----------------------------------------------------------------------------
(* Claims about the merge/split pipeline *)

BlockAt(b) == LevelDB_Get(ldb, openV, NewBlockTKeyByCoord(b))
IndexAt(l) == LevelDB_Get(ldb, openV, NewLabelIndexTKey(l))

\* the blocks with an operation in the channel of shard n or held by its worker
ShardBlocks(n) ==
    {mutateCh[n][i].block : i \in 1..Len(mutateCh[n])}
    \cup (IF worker[n].pc = "have" THEN {worker[n].block} ELSE {})

\* the number of block operations of request c sent and not yet done
OpsPending(c) ==
    Cardinality({<<n, i>> \in Shards \X (1..(ChanCap + 1)) :
                    i <= Len(mutateCh[n]) /\ mutateCh[n][i].c = c})
    + Cardinality({n \in Shards : worker[n].pc = "have" /\ worker[n].c = c})

BlockUpdatesDone(c) == call[c].toSend = {} /\ OpsPending(c) = 0

PastBarrier(c) ==
    /\ call[c].mutID # 0
    /\ \/ call[c].op.kind = "merge" /\ call[c].pc \in {"commit", "events", "stop", "done"}
       \/ call[c].op.kind = "split" /\ call[c].pc \in {"indices", "events", "done"}

\* C4: the index batch of a mutation is neither built nor committed until
\* every block operation of the mutation has run its MutDone.
C4_BarrierBeforeIndex ==
    \A c \in Calls :
        (PastBarrier(c) \/ call[c].committed) => BlockUpdatesDone(c)

\* a merge is about to build its index batch, both its blocks rewritten
C4_Witness ==
    \E c \in Calls :
        /\ call[c].op.kind = "merge" /\ call[c].pc = "commit"
        /\ call[c].bc = 2
        /\ \E o \in Calls \ {c} : OpsPending(o) > 0

StartEvents == {"MergeStart", "SplitStart"}
EndEvents == {"MergeEnd", "SplitEnd"}

\* C5: the MergeStart or SplitStart event of a mutation is published before
\* any publishBlockChange of that mutation, and its MergeEnd or SplitEnd event
\* after all of them.
C5_StartEndBracket ==
    [][\A c \in Calls :
          call'[c].bc > call[c].bc =>
              /\ call[c].ev \cap StartEvents # {}
              /\ call[c].ev \cap EndEvents = {}
              /\ call'[c].ev \cap EndEvents = {}]_vars

\* a split has published SplitEnd after the change of its two blocks
C5_Witness ==
    \E c \in Calls :
        /\ call[c].op.kind = "split"
        /\ "SplitStart" \in call[c].ev /\ "SplitEnd" \in call[c].ev
        /\ call[c].bc = 2

PreVoxels(c, l) == IF IsNil(call[c].pre[l]) THEN 0 ELSE MetaVoxels(call[c].pre[l])
PreBlocks(c, l) == IF IsNil(call[c].pre[l]) THEN {} ELSE Range(MetaBlocks(call[c].pre[l]))

RECURSIVE SumPreVoxels(_, _)
SumPreVoxels(c, ls) ==
    IF ls = {} THEN 0
    ELSE LET l == CHOOSE x \in ls : TRUE
         IN PreVoxels(c, l) + SumPreVoxels(c, ls \ {l})

IsAscending(q) == \A i, j \in 1..Len(q) : i < j => q[i] < q[j]

\* the index batch of merge c is committed and its labels are still reserved
MergeCommitted(c) ==
    call[c].op.kind = "merge" /\ call[c].committed /\ call[c].pc \in {"events", "stop"}

\* C7: after a merge whose index batch commits, the stored Meta of the target
\* holds the previous voxels of the target plus those of the merged labels,
\* its blocks are the ascending union of the block lists, and the index of
\* every merged label reads absent.
C7_MergedIndex ==
    \A c \in Calls :
        MergeCommitted(c) =>
            LET op == call[c].op
                stored == IndexAt(op.target)
            IN /\ ~IsNil(stored)
               /\ MetaVoxels(stored) = SumPreVoxels(c, {op.target} \cup op.merged)
               /\ IsAscending(MetaBlocks(stored))
               /\ Range(MetaBlocks(stored)) =
                      UNION {PreBlocks(c, l) : l \in {op.target} \cup op.merged}
               /\ \A m \in op.merged : IsNil(IndexAt(m))

\* label 2 has been merged into label 1 at a child version
C7_Witness ==
    \E c \in Calls :
        /\ MergeCommitted(c) /\ call[c].op.target = 1
        /\ openV # RootVersion
        /\ IndexAt(1) = Meta(3, <<1, 2>>)
        /\ IsNil(IndexAt(2))
        /\ ~IsNil(LevelDB_Get(ldb, RootVersion, NewLabelIndexTKey(2)))

\* C8: after a merge has finished and committed, no storage operation having
\* failed, every block listed in the stored Meta of the target has a voxel of
\* the target and no voxel read at the version has a merged label.
C8_IndexBlockConsistency ==
    \A c \in Calls :
        (MergeCommitted(c) /\ fails = 0) =>
            LET op == call[c].op
                stored == IndexAt(op.target)
            IN /\ ~IsNil(stored)
               /\ \A b \in Range(MetaBlocks(stored)) :
                      ~IsNil(BlockAt(b))
                      /\ \E i \in DOMAIN BlockAt(b) : BlockAt(b)[i] = op.target
               /\ \A b \in Blocks :
                      ~IsNil(BlockAt(b)) =>
                          \A i \in DOMAIN BlockAt(b) : BlockAt(b)[i] \notin op.merged

RequestLabels(c) == OpLabels(call[c].op, call[c].toLabel)

\* C10: the labels of a merge or split are in the dirty set before any start
\* event is published or any block operation enqueued; a rejected request
\* returns the error with no event published, no block operation enqueued and
\* no block or index key written.
C10_ReserveFirst ==
    \A c \in Calls :
        /\ (call[c].ev # {} \/ call[c].mutID # 0 \/ call[c].bc > 0
               \/ OpsPending(c) > 0 \/ call[c].committed)
              => call[c].reserved
        /\ call[c].pc \notin {"idle", "done"}
              => call[c].reserved
                 /\ \A l \in RequestLabels(c) : <<openV, l>> \in dirty
        /\ call[c].rejected
              => /\ call[c].pc = "done" /\ call[c].ret = "err"
                 /\ call[c].ev = {} /\ call[c].mutID = 0 /\ call[c].bc = 0
                 /\ OpsPending(c) = 0 /\ ~call[c].committed

\* a request is rejected while the request it conflicts with is enqueueing
C10_Witness ==
    \E c, o \in Calls :
        /\ call[c].rejected /\ call[c].ret = "err"
        /\ call[o].reserved /\ call[o].pc = "enqueue"
        /\ RequestLabels(c) \cap RequestLabels(o) # {}
        /\ OpsPending(o) > 0


\* the labels of request c are in the dirty set at the open version
LabelsDirty(c) == \E l \in RequestLabels(c) : <<openV, l>> \in dirty

\* C11: every merge or split that marked its labels dirty has cleared them
\* when it ends, on every path (failed notification, failed load of a Meta,
\* error of processMerge/processSplit), so that no later request on the same
\* labels at the same version is rejected for a request that is over.
C11_DirtyCleared ==
    \A c \in Calls :
        (call[c].reserved /\ call[c].pc = "done")
            => \/ ~LabelsDirty(c)
               \/ \E o \in Calls \ {c} :
                     /\ call[o].reserved /\ call[o].pc # "done"
                     /\ RequestLabels(o) \cap RequestLabels(c) # {}

\* the index batch of fine split c is committed and its labels still reserved
SplitCommitted(c) ==
    call[c].op.kind = "split" /\ call[c].committed /\ call[c].pc = "events"

\* C12: after a fine split of F into T commits, no storage operation having
\* failed, the stored Meta of F has its previous voxels minus the voxels
\* covered by the split runs, and a block touched by the split is in its block
\* list if and only if a voxel of F remains in the block.
C12_SplitOldIndex ==
    \A c \in Calls :
        (SplitCommitted(c) /\ fails = 0) =>
            LET op == call[c].op
                stored == IndexAt(op.from)
            IN /\ ~IsNil(stored)
               /\ MetaVoxels(stored) = PreVoxels(c, op.from) - SplitVoxels(op)
               /\ \A b \in DOMAIN op.split :
                      (b \in Range(MetaBlocks(stored)))
                          <=> (\E i \in DOMAIN BlockAt(b) : BlockAt(b)[i] = op.from)

\* C13: after a fine split of F into T commits, the stored Meta of T has the
\* number of split voxels and the ascending list of the blocks touched by the
\* split runs.
C13_SplitNewIndex ==
    \A c \in Calls :
        SplitCommitted(c) =>
            LET stored == IndexAt(call[c].toLabel)
            IN /\ ~IsNil(stored)
               /\ MetaVoxels(stored) = SplitVoxels(call[c].op)
               /\ IsAscending(MetaBlocks(stored))
               /\ Range(MetaBlocks(stored)) = DOMAIN call[c].op.split

\* coarse split c has returned without error and no other request has run
CoarseDoneAlone(c) ==
    /\ call[c].op.kind = "coarse" /\ call[c].pc = "done" /\ call[c].ret = "nil"
    /\ \A o \in Calls \ {c} : call[o].pc = "idle"

\* the voxels of label l in blocks bs before any request
InitCount(l, bs) ==
    Cardinality({<<b, i>> \in bs \X {1, 2} : InitBlocks[b][i] = l})

\* C14: a coarse split of F into T over a block list S rewrites, in every
\* block of S, every voxel of F to T and leaves every other voxel unchanged,
\* and once it is over no block of S is in the stored block list of F.
C14_CoarseRewrites ==
    \A c \in Calls :
        CoarseDoneAlone(c) =>
            \A b \in Range(call[c].blocks) :
                /\ \A i \in DOMAIN InitBlocks[b] :
                      BlockAt(b)[i] = IF InitBlocks[b][i] = call[c].op.from
                                      THEN call[c].toLabel ELSE InitBlocks[b][i]
                /\ b \notin Range(MetaBlocks(IndexAt(call[c].op.from)))

\* C15: after a coarse split of F into T over a block list S, the stored Meta
\* of T has as many voxels as were relabeled from F to T in the blocks of S,
\* and the voxels of the stored Meta of F have decreased by that number.
C15_CoarseVoxels ==
    \A c \in Calls :
        CoarseDoneAlone(c) =>
            LET n == InitCount(call[c].op.from, Range(call[c].blocks))
            IN /\ ~IsNil(IndexAt(call[c].toLabel))
               /\ MetaVoxels(IndexAt(call[c].toLabel)) = n
               /\ MetaVoxels(IndexAt(call[c].op.from)) = PreVoxels(c, call[c].op.from) - n

CountLabel(data, l) == Cardinality({i \in DOMAIN data : data[i] = l})

\* worker n stores the block of a fine split in this step
SplitStores(n) ==
    /\ worker[n].pc = "have" /\ worker'[n].pc = "idle"
    /\ call[worker[n].c].op.kind = "split"
    /\ ~blkFailed'[worker[n].block]

\* C16 as stated: for every block of a fine split of F into T, whatever the
\* runs inside the block cover and whether or not the block held T, the voxels
\* of F before equal the voxels of F after plus the voxels of T after.
C16_SplitConserves ==
    [][\A n \in Shards :
          SplitStores(n) =>
              LET c == worker[n].c
                  after == LevelDB_Get(ldb', openV, NewBlockTKeyByCoord(worker[n].block))
              IN CountLabel(worker[n].data, call[c].op.from)
                     = CountLabel(after, call[c].op.from)
                       + CountLabel(after, call[c].toLabel)]_vars

\* C16: for every block of a fine split of F into T whose runs cover only
\* voxels of F and which held no voxel of T, the voxels of F before equal the
\* voxels of F after plus the voxels of T after; a run voxel that is not of F
\* is set to T all the same, and voxels of T already in the block are counted
\* with the split ones.
C16_SplitConservesWithinLabel ==
    [][\A n \in Shards :
          SplitStores(n) =>
              LET c == worker[n].c
                  b == worker[n].block
                  before == worker[n].data
                  after == LevelDB_Get(ldb', openV, NewBlockTKeyByCoord(b))
                  F == call[c].op.from
                  T == call[c].toLabel
                  runs == RunVoxels(call[c].op.split[b])
              IN /\ (CountLabel(before, T) = 0
                        /\ \A i \in runs : before[i] = F)
                    => CountLabel(before, F) = CountLabel(after, F) + CountLabel(after, T)
                 /\ \A i \in DOMAIN before :
                        after[i] = IF i \in runs THEN T ELSE before[i]]_vars

\* a fine split has stored block 2 with its one voxel of label 4 relabeled
C16_Witness ==
    \E c \in Calls :
        /\ call[c].op.kind = "split" /\ call[c].op.target = 0
        /\ 2 \in DOMAIN call[c].op.split
        /\ RunVoxels(call[c].op.split[2]) = {2}
        /\ call[c].bc >= 1 /\ ~blkFailed[2]
        /\ BlockAt(2) = <<2, call[c].toLabel>>

\* C17: a split whose from-label is 0 or whose target label is its from-label
\* is not carried out: it writes no block key and no label-index key and
\* publishes no split event.
C17_DegenerateSplitRefused ==
    \A c \in Calls :
        (call[c].op.kind \in {"split", "coarse"}
            /\ (call[c].op.from = 0 \/ call[c].toLabel = call[c].op.from))
            => /\ call[c].ev = {}
               /\ call[c].mutID = 0 /\ OpsPending(c) = 0
               /\ call[c].bc = 0 /\ ~call[c].committed

\* C18: merge and split write no block key and no label-index key at a
\* locked version: a request on a locked version stores no block, commits no
\* index batch and leaves the store unchanged.
C18_LockedVersionUnwritten ==
    Locked(openV) =>
        /\ ldb = InitStore
        /\ \A c \in Calls : call[c].bc = 0 /\ ~call[c].committed

\* the physical keys of store s at version v hold what was last written at v
KeysMatchHist(s, tk, v) ==
    /\ (ConstructKey(v, tk) \in DOMAIN s) <=> (hist[tk][v] \in Values)
    /\ (ConstructKey(v, tk) \in DOMAIN s) => s[ConstructKey(v, tk)] = hist[tk][v]

\* Put and Delete on both engines: the keys of a version depend on the writes
\* at that version alone
KVFrame ==
    \A tk \in TKeys, v \in Versions :
        /\ KeysMatchHist(ldb, tk, v)
        /\ KeysMatchHist(bucket, tk, v)
        /\ (TombstoneKey(v, tk) \in DOMAIN ldb) <=> (hist[tk][v] = Deleted)
        /\ (TombstoneKey(v, tk) \in DOMAIN bucket) <=> (hist[tk][v] = Deleted)

\* merge and split at openV: every key of another version is as it was, and
\* a read at an ancestor of openV returns what it returned
MSFrame ==
    /\ \A k \in (DOMAIN ldb) \cup (DOMAIN InitStore) :
          VersionFromKey(k) # openV =>
              /\ k \in DOMAIN ldb /\ k \in DOMAIN InitStore
              /\ ldb[k] = InitStore[k]
    /\ \A a \in AncestorSet(openV) \ {openV} :
          /\ \A b \in Blocks :
                LevelDB_Get(ldb, a, NewBlockTKeyByCoord(b)) = InitBlocks[b]
          /\ \A l \in Labels :
                LevelDB_Get(ldb, a, NewLabelIndexTKey(l)) = InitMeta(l)

----------------------------------------------------------------------------
(* Specification of the batches of the two engines: every batch is built  *)
(* and committed on both                                                  *)

\* the operations added to a batch, and the batches
BatchOps == {<<"put", tk, val>> : tk \in TKeys, val \in Values}
            \cup {<<"delete", tk, Nil>> : tk \in TKeys}
Batches == {<<a>> : a \in BatchOps} \cup {<<a, b>> : a \in BatchOps, b \in BatchOps}

\* the levigo WriteBatch built by goBatch.Put / goBatch.Delete
RECURSIVE LevelDB_Batch(_, _)
LevelDB_Batch(v, b) ==
    IF b = <<>> THEN <<>>
    ELSE (IF Head(b)[1] = "put" THEN goBatch_Put(v, Head(b)[2], Head(b)[3])
          ELSE goBatch_Delete(v, Head(b)[2]))
         \o LevelDB_Batch(v, Tail(b))

\* the operations buffered by the gbucket goBatch.Put / goBatch.Delete
RECURSIVE GBucket_Batch(_, _)
GBucket_Batch(v, b) ==
    IF b = <<>> THEN <<>>
    ELSE (IF Head(b)[1] = "put" THEN goBuffer_Put(v, Head(b)[2], Head(b)[3])
          ELSE goBuffer_Delete(v, Head(b)[2]))
         \o GBucket_Batch(v, Tail(b))

\* the writes of a batch applied one after the other, in the order added
RECURSIVE BatchHist(_, _, _)
BatchHist(h, v, b) ==
    IF b = <<>> THEN h
    ELSE BatchHist([h EXCEPT ![Head(b)[2]][v] =
                        IF Head(b)[1] = "put" THEN Head(b)[3] ELSE Deleted],
                   v, Tail(b))

\* goBatch.Commit on both engines: ldb.Write of the WriteBatch, Flush of the
\* buffer
Commit(v, b) ==
    /\ nops < MaxBatches
    /\ ldb' = WriteBatch(ldb, LevelDB_Batch(v, b))
    /\ \E ord \in Orders(Len(GBucket_Batch(v, b))) :
           bucket' = Flush(bucket, GBucket_Batch(v, b), ord)[1]
    /\ hist' = BatchHist(hist, v, b)
    /\ nops' = nops + 1
    /\ redone' = FALSE
    /\ UNCHANGED <<msVars, rgVars, flush>>

BatchNext == \E v \in Versions, b \in Batches : Commit(v, b)

SpecBatch == KVInit /\ [][BatchNext]_vars

\* what a read of tk at v returns when writes apply in the order issued
ExpectedRead(tk, v) ==
    LET w == NearestWrite(hist, tk, v)
    IN IF w[2] \in Values THEN w[2] ELSE Nil

\* C20: after Commit returns, on both engines, the store is the batch's puts
\* and deletes applied in the order they were added: every read returns what
\* the sequential application gives.
C20_BatchSequential ==
    \A tk \in TKeys, v \in Versions :
        /\ LevelDB_Get(ldb, v, tk) = ExpectedRead(tk, v)
        /\ GBucket_Get(bucket, v, tk) = ExpectedRead(tk, v)

\* the LevelDB batch alone is applied in the order added
LevelDB_BatchSequential ==
    \A tk \in TKeys, v \in Versions :
        LevelDB_Get(ldb, v, tk) = ExpectedRead(tk, v)

----------------------------------------------------------------------------
(* Specification of the range operations of the basholeveldb engine: one  *)
(* call, its producer goroutine (versionedRange / unversionedRange or     *)
(* SendRange itself) and its consumer, joined by an unbuffered channel    *)

\* deletes per batch of DeleteRange (10000 in the source)
BATCH_SIZE == 2

\* the writes that build the store the call runs on
RangeWrites == {<<kind, tk, v>> : kind \in {"put", "delete"}, tk \in TKeys, v \in {1, 2}}
RangeScripts == [1..3 -> RangeWrites]
RangeValue(v) == IF v = 1 THEN <<"x">> ELSE <<"y">>

RECURSIVE StoreAfter(_, _)
StoreAfter(s, script) ==
    IF script = <<>> THEN s
    ELSE LET w == Head(script)
         IN StoreAfter(IF w[1] = "put" THEN LevelDB_Put(s, w[3], w[2], RangeValue(w[3]))
                       ELSE LevelDB_Delete(s, w[3], w[2]),
                       Tail(script))

RECURSIVE HistAfter(_, _)
HistAfter(h, script) ==
    IF script = <<>> THEN h
    ELSE LET w == Head(script)
         IN HistAfter([h EXCEPT ![w[2]][w[3]] =
                          IF w[1] = "put" THEN RangeValue(w[3]) ELSE Deleted],
                      Tail(script))

\* the calls: versioned contexts for every operation, unversioned contexts
\* for the two read operations, and SendRange over physical keys
RangeKinds == {"KeysInRange", "SendKeysInRange", "GetRange", "ProcessRange",
               "DeleteRange"}
TKeyRanges == {<<1, 1>>, <<1, 2>>, <<2, 2>>}
KeyRanges == {<<ConstructKey(1, 1), TombstoneKey(2, 1)>>,
              <<TombstoneKey(1, 1), ConstructKey(1, 2)>>,
              <<MinVersionKey(1), MaxVersionKey(2)>>}
RangeCalls ==
    {[kind |-> k, versioned |-> TRUE, v |-> v, kStart |-> r[1], kEnd |-> r[2],
      keysOnly |-> k \in {"KeysInRange", "SendKeysInRange", "DeleteRange"}] :
        k \in RangeKinds, v \in {1, 2}, r \in TKeyRanges}
    \cup {[kind |-> k, versioned |-> FALSE, v |-> v, kStart |-> r[1], kEnd |-> r[2],
           keysOnly |-> k = "KeysInRange"] :
        k \in {"KeysInRange", "GetRange"}, v \in {1, 2}, r \in TKeyRanges}
    \cup {[kind |-> "SendRange", versioned |-> FALSE, v |-> 0, kStart |-> r[1],
           kEnd |-> r[2], keysOnly |-> ko] :
        r \in KeyRanges, ko \in BOOLEAN}

NoCall == [kind |-> "none", versioned |-> FALSE, v |-> 0, kStart |-> 0, kEnd |-> 0,
           keysOnly |-> FALSE]

\* the iterator over a snapshot s of the store
IterKeys(s) == SortKeys(DOMAIN s)
KeyGT(k1, k2) == ~KeyLE(k1, k2)
\* it.Seek(k): the position of the first stored key >= k
Seek(s, k) == Cardinality({x \in DOMAIN s : KeyGT(k, x)}) + 1
IterValid(s, pos) == pos <= Cardinality(DOMAIN s)

\* errorableKV{kv, err}: kv is Nil or <<key, value>>
Msg(kv, err) == <<kv, err>>
EndMsg == Msg(Nil, FALSE)
ErrMsg == Msg(Nil, TRUE)

\* sendKV: the messages it sends; rerr: VersionedKeyValue reports an error
sendKV(v, values, rerr) ==
    IF Len(values) # 0
    THEN IF rerr THEN <<ErrMsg>>
         ELSE LET kv == VersionedKeyValue(v, Range(values))
              IN IF kv # Nil THEN <<Msg(kv, FALSE)>> ELSE <<>>
    ELSE <<>>

\* variant: the rows of the last type-key stay in the group
NewGroup_Keep(values) == values

\* the group of rows after it was handed to sendKV: values = []
NewGroup(values) == <<>>

\* variant: the end key is exclusive
PassedFinalKey_Exclusive(itKey, keyEnd) == ~KeyGT(keyEnd, itKey)

\* "Did we pass the final key?"
PassedFinalKey(itKey, keyEnd) == KeyGT(itKey, keyEnd)

IdleProd == [pc |-> "none", snap |-> EmptyStore, pos |-> 0, values |-> <<>>,
             maxVersionKey |-> <<0, 0, 0>>, pending |-> <<>>, after |-> "none",
             failed |-> FALSE, closed |-> FALSE, sent |-> <<>>]

IdleCons == [pc |-> "none", out |-> <<>>, ret |-> "none", numKV |-> 0,
             batch |-> <<>>, gotErr |-> FALSE]

\* the producer sends msgs and goes on at pc after
ProdSends(p, msgs, after) ==
    IF msgs = <<>>
    THEN [p EXCEPT !.pc = after, !.closed = (after = "done")]
    ELSE [p EXCEPT !.pc = "send", !.pending = msgs, !.after = after]

RangeInit ==
    /\ \E script \in RangeScripts :
        /\ ldb = StoreAfter(EmptyStore, script)
        /\ hist = HistAfter([tk \in TKeys |-> [v \in Versions |-> NoWrite]], script)
    /\ bucket = EmptyStore
    /\ nops = 0
    /\ MSIdle
    /\ rcall = NoCall
    /\ prod = IdleProd
    /\ cons = IdleCons
    /\ flush = <<>>
    /\ redone = FALSE

\* the caller makes the channel and starts the producer goroutine, which
\* makes its iterator and seeks the first key
RangeCall(c) ==
    /\ rcall.kind = "none"
    /\ rcall' = c
    /\ LET first == IF c.kind = "SendRange" THEN c.kStart
                    ELSE IF c.versioned THEN MinVersionKey(c.kStart)
                    ELSE ConstructKey(c.v, c.kStart)
       IN prod' = [IdleProd EXCEPT !.pc = "loop", !.snap = ldb,
                                   !.pos = Seek(ldb, first),
                                   !.maxVersionKey =
                                       IF c.kind = "SendRange" THEN IdleProd.maxVersionKey
                                       ELSE MaxVersionKey(c.kStart)]
    /\ cons' = [IdleCons EXCEPT !.pc = "recv"]
    /\ UNCHANGED <<ldb, bucket, hist, nops, redone, flush, msVars>>

\* one turn of versionedRange's loop; rerr: the resolver called by sendKV in
\* this turn reports an error
versionedRange(rerr) ==
    /\ rcall.versioned
    /\ prod.pc = "loop"
    /\ LET valid == IterValid(prod.snap, prod.pos)
           itKey == IterKeys(prod.snap)[prod.pos]
           itValue == IF rcall.keysOnly THEN Nil ELSE prod.snap[itKey]
           passed == valid /\ KeyGT(itKey, prod.maxVersionKey)
           resolves == Len(prod.values) # 0 /\ (passed \/ ~valid)
           m1 == IF passed THEN sendKV(rcall.v, prod.values, rerr) ELSE <<>>
           values1 == IF passed THEN NewGroup(prod.values) ELSE prod.values
           mvk1 == IF passed THEN MaxVersionKey(TKeyFromKey(itKey))
                   ELSE prod.maxVersionKey
           p1 == [prod EXCEPT !.failed = prod.failed \/ rerr]
       IN /\ rerr => (resolves /\ ~prod.failed)
          /\ IF ~valid
             THEN prod' = ProdSends(p1, sendKV(rcall.v, prod.values, rerr)
                                        \o <<EndMsg>>, "done")
             ELSE IF PassedFinalKey(itKey, MaxVersionKey(rcall.kEnd))
             THEN prod' = ProdSends([p1 EXCEPT !.values = values1,
                                               !.maxVersionKey = mvk1],
                                    m1 \o (IF Len(values1) > 0
                                           THEN sendKV(rcall.v, values1, FALSE)
                                           ELSE <<>>) \o <<EndMsg>>,
                                    "done")
             ELSE prod' = ProdSends(
                      [p1 EXCEPT !.values = Append(values1, <<itKey, itValue>>),
                                 !.maxVersionKey = mvk1,
                                 !.pos = prod.pos + 1],
                      m1, "loop")
    /\ UNCHANGED <<ldb, bucket, hist, nops, redone, rcall, cons, flush, msVars>>

\* versionedRange when TKeyFromKey / MaxVersionKey of the first key of a new
\* group reports an error: the error is sent and the goroutine returns
versionedRange_KeyError ==
    /\ rcall.versioned
    /\ prod.pc = "loop"
    /\ ~prod.failed
    /\ IterValid(prod.snap, prod.pos)
    /\ KeyGT(IterKeys(prod.snap)[prod.pos], prod.maxVersionKey)
    /\ prod' = ProdSends([prod EXCEPT !.failed = TRUE], <<ErrMsg>>, "done")
    /\ UNCHANGED <<ldb, bucket, hist, nops, redone, rcall, cons, flush, msVars>>

\* the iterator stops being valid with an error: versionedRange and
\* unversionedRange send the error and return
Range_IterError ==
    /\ rcall.kind \notin {"none", "SendRange"}
    /\ prod.pc = "loop"
    /\ ~prod.failed
    /\ prod' = ProdSends([prod EXCEPT !.failed = TRUE], <<ErrMsg>>, "done")
    /\ UNCHANGED <<ldb, bucket, hist, nops, redone, rcall, cons, flush, msVars>>

\* one turn of unversionedRange's loop, or its end
unversionedRange ==
    /\ rcall.kind \notin {"none", "SendRange"}
    /\ ~rcall.versioned
    /\ prod.pc = "loop"
    /\ LET valid == IterValid(prod.snap, prod.pos)
           itKey == IterKeys(prod.snap)[prod.pos]
           itValue == IF rcall.keysOnly THEN Nil ELSE prod.snap[itKey]
       IN IF valid /\ ~PassedFinalKey(itKey, ConstructKey(rcall.v, rcall.kEnd))
          THEN prod' = ProdSends([prod EXCEPT !.pos = prod.pos + 1],
                                 <<Msg(<<itKey, itValue>>, FALSE)>>, "loop")
          ELSE prod' = ProdSends(prod, <<EndMsg>>, "done")
    /\ UNCHANGED <<ldb, bucket, hist, nops, redone, rcall, cons, flush, msVars>>

\* one turn of SendRange's loop, or its end: the nil marker, then the
\* iterator's error is returned; iterr: the iterator stopped with an error
SendRange(iterr) ==
    /\ rcall.kind = "SendRange"
    /\ prod.pc = "loop"
    /\ iterr => ~prod.failed
    /\ LET valid == IterValid(prod.snap, prod.pos) /\ ~iterr
           itKey == IterKeys(prod.snap)[prod.pos]
           itValue == IF rcall.keysOnly THEN Nil ELSE prod.snap[itKey]
       IN IF valid /\ ~PassedFinalKey(itKey, rcall.kEnd)
          THEN prod' = ProdSends([prod EXCEPT !.pos = prod.pos + 1],
                                 <<Msg(<<itKey, itValue>>, FALSE)>>, "loop")
          ELSE prod' = ProdSends([prod EXCEPT !.failed = prod.failed \/ iterr],
                                 <<EndMsg>>, "done")
    /\ UNCHANGED <<ldb, bucket, hist, nops, redone, rcall, cons, flush, msVars>>

\* the message handed over the unbuffered channel, and the producer after it
Received == Head(prod.pending)
ProdAfterSend ==
    IF Len(prod.pending) = 1
    THEN [prod EXCEPT !.pending = <<>>, !.pc = prod.after,
                      !.closed = (prod.after = "done"),
                      !.sent = Append(prod.sent, Received)]
    ELSE [prod EXCEPT !.pending = Tail(prod.pending),
                      !.sent = Append(prod.sent, Received)]

CanReceive(kind) ==
    /\ rcall.kind = kind
    /\ prod.pc = "send"
    /\ cons.pc = "recv"

Returns(ret) == [cons EXCEPT !.pc = "returned", !.ret = ret,
                             !.gotErr = cons.gotErr \/ Received[2]]

\* the reader of SendRange's out channel takes one key-value or the nil
\* marker; SendRange returns after the marker
SendRange_Reader ==
    /\ CanReceive("SendRange")
    /\ prod' = ProdAfterSend
    /\ cons' = IF Received[1] = Nil
               THEN [cons EXCEPT !.pc = "returned",
                                 !.out = Append(cons.out, Nil),
                                 !.ret = IF prod.failed THEN "err" ELSE "ok"]
               ELSE [cons EXCEPT !.out = Append(cons.out, Received[1])]
    /\ UNCHANGED <<ldb, bucket, hist, nops, redone, rcall, flush, msVars>>

\* one turn of the consumer loop of KeysInRange; perr: TKeyFromKey fails
KeysInRange(perr) ==
    /\ CanReceive("KeysInRange")
    /\ prod' = ProdAfterSend
    /\ cons' = IF Received[1] = Nil THEN Returns("ok")
               ELSE IF Received[2] THEN Returns("err")
               ELSE IF perr THEN Returns("err")
               ELSE [cons EXCEPT !.out = Append(cons.out, TKeyFromKey(Received[1][1]))]
    /\ perr => Received[1] # Nil
    /\ UNCHANGED <<ldb, bucket, hist, nops, redone, rcall, flush, msVars>>

\* one turn of the consumer loop of SendKeysInRange: every key and the nil
\* marker go to the caller's key channel
SendKeysInRange ==
    /\ CanReceive("SendKeysInRange")
    /\ prod' = ProdAfterSend
    /\ cons' = IF Received[1] = Nil
               THEN [Returns("ok") EXCEPT !.out = Append(cons.out, Nil)]
               ELSE IF Received[2]
               THEN [Returns("err") EXCEPT !.out = Append(cons.out, Nil)]
               ELSE [cons EXCEPT !.out = Append(cons.out, Received[1][1])]
    /\ UNCHANGED <<ldb, bucket, hist, nops, redone, rcall, flush, msVars>>

\* one turn of the consumer loop of GetRange; perr: TKeyFromKey fails
GetRange(perr) ==
    /\ CanReceive("GetRange")
    /\ prod' = ProdAfterSend
    /\ cons' = IF Received[1] = Nil THEN Returns("ok")
               ELSE IF Received[2] THEN Returns("err")
               ELSE IF perr THEN Returns("err")
               ELSE [cons EXCEPT !.out = Append(cons.out,
                                     <<TKeyFromKey(Received[1][1]), Received[1][2]>>)]
    /\ perr => Received[1] # Nil
    /\ UNCHANGED <<ldb, bucket, hist, nops, redone, rcall, flush, msVars>>

\* one turn of the consumer loop of ProcessRange; ferr: TKeyFromKey or the
\* chunk handler f fails
ProcessRange(ferr) ==
    /\ CanReceive("ProcessRange")
    /\ prod' = ProdAfterSend
    /\ cons' = IF Received[1] = Nil THEN Returns("ok")
               ELSE IF Received[2] THEN Returns("err")
               ELSE IF ferr THEN Returns("err")
               ELSE [cons EXCEPT !.out = Append(cons.out,
                                     <<TKeyFromKey(Received[1][1]), Received[1][2]>>)]
    /\ ferr => Received[1] # Nil
    /\ UNCHANGED <<ldb, bucket, hist, nops, redone, rcall, flush, msVars>>

\* one turn of the consumer loop of DeleteRange, and what follows the loop;
\* perr: TKeyFromKey fails; cerr: batch.Commit fails
DeleteRange(perr, cerr) ==
    /\ CanReceive("DeleteRange")
    /\ prod' = ProdAfterSend
    /\ perr => (Received[1] # Nil /\ ~cerr)
    /\ IF Received[1] = Nil
       THEN IF cons.numKV % BATCH_SIZE # 0
            THEN IF cerr
                 THEN cons' = Returns("err") /\ ldb' = ldb
                 ELSE /\ cons' = [Returns("ok") EXCEPT !.batch = <<>>]
                      /\ ldb' = WriteBatch(ldb, cons.batch)
            ELSE ~cerr /\ cons' = Returns("ok") /\ ldb' = ldb
       ELSE IF Received[2] THEN ~cerr /\ cons' = Returns("err") /\ ldb' = ldb
       ELSE IF perr THEN cons' = Returns("err") /\ ldb' = ldb
       ELSE LET b == cons.batch \o goBatch_Delete(rcall.v, TKeyFromKey(Received[1][1]))
            IN IF (cons.numKV + 1) % BATCH_SIZE = 0
               THEN IF cerr
                    THEN cons' = [Returns("err") EXCEPT !.batch = b] /\ ldb' = ldb
                    ELSE /\ cons' = [cons EXCEPT !.batch = <<>>,
                                                 !.numKV = cons.numKV + 1,
                                                 !.out = Append(cons.out, TKeyFromKey(Received[1][1]))]
                         /\ ldb' = WriteBatch(ldb, b)
               ELSE /\ ~cerr
                    /\ cons' = [cons EXCEPT !.batch = b, !.numKV = cons.numKV + 1,
                                            !.out = Append(cons.out, TKeyFromKey(Received[1][1]))]
                    /\ ldb' = ldb
    /\ UNCHANGED <<bucket, hist, nops, redone, rcall, flush, msVars>>

RangeNext ==
    \/ \E c \in RangeCalls : RangeCall(c)
    \/ \E rerr \in BOOLEAN : versionedRange(rerr)
    \/ versionedRange_KeyError
    \/ Range_IterError
    \/ unversionedRange
    \/ \E iterr \in BOOLEAN : SendRange(iterr)
    \/ SendRange_Reader
    \/ \E perr \in BOOLEAN : KeysInRange(perr)
    \/ SendKeysInRange
    \/ \E perr \in BOOLEAN : GetRange(perr)
    \/ \E ferr \in BOOLEAN : ProcessRange(ferr)
    \/ \E perr, cerr \in BOOLEAN : DeleteRange(perr, cerr)

SpecRange == RangeInit /\ [][RangeNext]_vars

----------------------------------------------------------------------------
(* Claims about the range operations *)

\* the range call has returned to its caller
RangeReturned(kinds) == rcall.kind \in kinds /\ cons.pc = "returned"

\* the type-keys of [kStart, kEnd] visible at v, ascending
VisibleTKeys(v, kStart, kEnd) ==
    SortInts({tk \in TKeys : /\ kStart <= tk
                             /\ tk <= kEnd
                             /\ NearestWrite(hist, tk, v)[2] \in Values})

\* the row an operation emits for a visible type-key
RowOf(kind, v, tk) ==
    LET w == NearestWrite(hist, tk, v)
    IN IF kind = "KeysInRange" THEN tk
       ELSE IF kind = "SendKeysInRange" THEN ConstructKey(w[1], tk)
       ELSE <<tk, w[2]>>

ExpectedRows(kind, v, kStart, kEnd) ==
    LET tks == VisibleTKeys(v, kStart, kEnd)
    IN [i \in 1..Len(tks) |-> RowOf(kind, v, tks[i])]
       \o (IF kind = "SendKeysInRange" THEN <<Nil>> ELSE <<>>)

VersionedReads == {"KeysInRange", "SendKeysInRange", "GetRange", "ProcessRange"}

\* C21: a versioned range read that meets no error emits one row for each
\* type-key of [kStart, kEnd] visible at the context's version and no other
\* row, in ascending type-key order.
C21_VersionedRangeRows ==
    (/\ RangeReturned(VersionedReads)
     /\ rcall.versioned
     /\ cons.ret = "ok"
     /\ ~prod.failed)
    => cons.out = ExpectedRows(rcall.kind, rcall.v, rcall.kStart, rcall.kEnd)

\* a read over both type-keys at version 2 returned the one row of type-key
\* 2, type-key 1 being stored at version 1 and tombstoned at version 2
C21_Witness ==
    /\ RangeReturned({"GetRange"})
    /\ rcall.versioned
    /\ rcall.v = 2 /\ rcall.kStart = 1 /\ rcall.kEnd = 2
    /\ cons.ret = "ok"
    /\ ~prod.failed
    /\ hist[1][1] \in Values /\ hist[1][2] = Deleted
    /\ Len(cons.out) = 1
    /\ cons.out[1][1] = 2

\* the first and the last physical key of an unversioned call or of SendRange
KeyBeg == IF rcall.kind = "SendRange" THEN rcall.kStart
          ELSE ConstructKey(rcall.v, rcall.kStart)
KeyEnd == IF rcall.kind = "SendRange" THEN rcall.kEnd
          ELSE ConstructKey(rcall.v, rcall.kEnd)

StoredInRange == {k \in DOMAIN ldb : KeyLE(KeyBeg, k) /\ KeyLE(k, KeyEnd)}

\* the call is served by unversionedRange or is SendRange, and its producer
\* has returned without an iterator error
RawRangeDone ==
    /\ rcall.kind # "none"
    /\ ~rcall.versioned
    /\ prod.pc = "done"
    /\ ~prod.failed

\* C22: unversionedRange and SendRange deliver the stored keys k with
\* kStart <= k <= kEnd, each once, in ascending byte order, and then exactly
\* one nil marker.
C22_RawRangeDelivers ==
    RawRangeDone =>
        LET keys == SortKeys(StoredInRange)
        IN prod.sent =
               [i \in 1..Len(keys) |->
                   Msg(<<keys[i], IF rcall.keysOnly THEN Nil ELSE ldb[keys[i]]>>, FALSE)]
               \o <<EndMsg>>

\* two keys were delivered, the last of them the end key itself, and a
\* stored key beyond the end key was not
C22_Witness ==
    /\ RawRangeDone
    /\ Len(prod.sent) = 3
    /\ KeyEnd \in DOMAIN ldb
    /\ prod.sent[2][1][1] = KeyEnd
    /\ \E k \in DOMAIN ldb : KeyGT(k, KeyEnd)

RangeOps == {"KeysInRange", "SendKeysInRange", "GetRange", "ProcessRange",
             "DeleteRange"}

\* C23: a range operation whose iterator or resolver reported an error
\* returns an error to its caller.
C23_RangeErrorReturned ==
    (RangeReturned(RangeOps) /\ cons.gotErr) => cons.ret = "err"

\* the goroutines of a range call are scheduled as long as they can step
SpecRangeFair == SpecRange /\ WF_vars(RangeNext)

\* C29: after a basholeveldb range operation has returned, its producer
\* goroutine eventually returns and closes its iterator.
C29_ProducerTerminates ==
    RangeReturned(RangeOps) ~> (prod.pc = "done" /\ prod.closed)

\* the producer of a returned call stands at a send nobody receives
ProducerLeaked ==
    /\ RangeReturned(RangeOps)
    /\ prod.pc = "send"

\* the basholeveldb DeleteRange that met no error leaves no key of the range
\* visible at its version
LevelDB_DeleteRangeClears ==
    (/\ RangeReturned({"DeleteRange"})
     /\ rcall.versioned
     /\ cons.ret = "ok"
     /\ ~cons.gotErr)
    => \A tk \in TKeys :
           (rcall.kStart <= tk /\ tk <= rcall.kEnd)
               => LevelDB_Get(ldb, rcall.v, tk) = Nil

\* DeleteRange returned after a batch of exactly BATCH_SIZE deletes
LevelDB_DeleteRangeFullBatch ==
    /\ RangeReturned({"DeleteRange"})
    /\ cons.ret = "ok"
    /\ ~cons.gotErr
    /\ cons.numKV = BATCH_SIZE

\* the basholeveldb DeleteRange leaves no key of the range visible whenever
\* it returns no error
LevelDB_DeleteRangeClearsAlways ==
    (/\ RangeReturned({"DeleteRange"})
     /\ rcall.versioned
     /\ cons.ret = "ok")
    => \A tk \in TKeys :
           (rcall.kStart <= tk /\ tk <= rcall.kEnd)
               => LevelDB_Get(ldb, rcall.v, tk) = Nil

----------------------------------------------------------------------------
(* Specification of the request buffer of the gbucket engine: one goBuffer *)
(* filled through its interface and flushed once                          *)

\* capacity of Flush's workQueue (1000 in the source)
MAXCONNECTIONS == 2

\* the store before the buffer is flushed, written by Put and Delete
FlushScripts == [1..2 -> RangeWrites]

RECURSIVE BucketAfter(_, _)
BucketAfter(b, script) ==
    IF script = <<>> THEN b
    ELSE LET w == Head(script)
             ops == IF w[1] = "put" THEN goBuffer_Put(w[3], w[2], RangeValue(w[3]))
                    ELSE goBuffer_Delete(w[3], w[2])
         IN BucketAfter(Flush(b, ops, <<1, 2>>)[1], Tail(script))

\* calls of the buffer's interface, and the operations each appends to ops
BufferCalls == {<<"Put", 1>>, <<"Delete", 2>>, <<"DeleteRange", 1, 2>>,
                <<"DeleteRange", 2, 2>>, <<"ProcessRange", 1, 2>>,
                <<"ProcessList", 1>>}
BufferFills == {<<a>> : a \in BufferCalls}
               \cup {<<a, b>> : a \in BufferCalls, b \in BufferCalls}

goBuffer_Append(v, c) ==
    IF c[1] = "Put" THEN goBuffer_Put(v, c[2], <<"x">>)
    ELSE IF c[1] = "Delete" THEN goBuffer_Delete(v, c[2])
    ELSE IF c[1] = "DeleteRange" THEN << <<"delRangeOp", c[2], c[3]>> >>
    ELSE IF c[1] = "ProcessRange" THEN << <<"getOp", c[2], c[3]>> >>
    ELSE << <<"getOp", c[2], 0>> >>

RECURSIVE goBuffer_Fill(_, _)
goBuffer_Fill(v, calls) ==
    IF calls = <<>> THEN <<>>
    ELSE goBuffer_Append(v, Head(calls)) \o goBuffer_Fill(v, Tail(calls))

\* a goroutine Flush starts for one operation
IdleRoutine == [pc |-> "none", keys |-> <<>>, kids |-> {}]

IsLocalRange(op) == op[1] = "delRangeOp" \/ (op[1] = "getOp" /\ op[3] # 0)

FlushInit ==
    /\ ldb = EmptyStore
    /\ \E script \in FlushScripts : bucket = BucketAfter(EmptyStore, script)
    /\ hist = <<>>
    /\ nops = 0
    /\ MSIdle
    /\ rcall = <<>>
    /\ prod = <<>>
    /\ cons = <<>>
    /\ redone = FALSE
    /\ \E v \in {1, 2}, calls \in BufferFills :
        LET ops == goBuffer_Fill(v, calls)
        IN flush = [v |-> v, calls |-> calls, ops |-> ops, n0 |-> Len(ops),
                    pc |-> "launch", i |-> 0, n1 |-> 0, got |-> 0, wq |-> 0,
                    retVals |-> 0, err |-> FALSE, b0 |-> bucket,
                    g |-> [j \in 1..Len(ops) |-> IdleRoutine],
                    exec |-> [j \in 1..Len(ops) |-> 0]]

FlushFrame == UNCHANGED <<ldb, hist, nops, redone, rgVars, msVars>>

\* Flush's first loop: a slot of workQueue is taken and the goroutine of the
\* next operation started
Flush_Launch ==
    /\ flush.pc = "launch"
    /\ flush.i < flush.n0
    /\ flush.wq < MAXCONNECTIONS
    /\ flush' = [flush EXCEPT !.i = flush.i + 1, !.wq = flush.wq + 1,
                              !.g[flush.i + 1].pc = "run"]
    /\ bucket' = bucket
    /\ FlushFrame

\* Flush's second loop starts: "for range buffer.ops" reads the length of
\* ops now
Flush_StartCollect ==
    /\ flush.pc = "launch"
    /\ flush.i = flush.n0
    /\ flush' = [flush EXCEPT !.pc = "collect", !.n1 = Len(flush.ops)]
    /\ bucket' = bucket
    /\ FlushFrame

\* the second loop takes one return value
Flush_Collect ==
    /\ flush.pc = "collect"
    /\ flush.got < flush.n1
    /\ flush.got < flush.retVals
    /\ flush' = [flush EXCEPT !.got = flush.got + 1]
    /\ bucket' = bucket
    /\ FlushFrame

Flush_Return ==
    /\ flush.pc = "collect"
    /\ flush.got = flush.n1
    /\ flush' = [flush EXCEPT !.pc = "returned"]
    /\ bucket' = bucket
    /\ FlushFrame

\* the goroutine of a delete, put or single get: the operation runs against
\* the bucket, its error goes to retVals and the slot is given back
Flush_Exec(j) ==
    /\ flush.g[j].pc = "run"
    /\ ~IsLocalRange(flush.ops[j])
    /\ LET op == flush.ops[j]
           r == IF op[1] = "getOp" THEN <<bucket, FALSE>> ELSE ExecOp(bucket, op)
       IN /\ bucket' = r[1]
          /\ flush' = [flush EXCEPT !.g[j].pc = "done", !.wq = flush.wq - 1,
                                    !.retVals = flush.retVals + 1,
                                    !.err = flush.err \/ r[2],
                                    !.exec[j] = flush.exec[j] + 1]
    /\ FlushFrame

\* deleteRangeLocal / processRangeLocal: the keys visible in the range are
\* listed and the goroutine's slot is given back
LocalRange_Keys(j) ==
    /\ flush.g[j].pc = "run"
    /\ IsLocalRange(flush.ops[j])
    /\ flush' = [flush EXCEPT !.g[j].pc = "spawn",
                              !.g[j].keys = getKeysInRange(bucket, flush.v,
                                                flush.ops[j][2], flush.ops[j][3]),
                              !.wq = flush.wq - 1]
    /\ bucket' = bucket
    /\ FlushFrame

\* a slot is taken and the goroutine of the next key started
LocalRange_Spawn(j) ==
    /\ flush.g[j].pc = "spawn"
    /\ flush.g[j].keys # <<>>
    /\ flush.wq < MAXCONNECTIONS
    /\ flush' = [flush EXCEPT !.g[j].keys = Tail(flush.g[j].keys),
                              !.g[j].kids = flush.g[j].kids
                                  \cup {TKeyFromKey(Head(flush.g[j].keys))},
                              !.wq = flush.wq + 1]
    /\ bucket' = bucket
    /\ FlushFrame

\* the goroutine of one key of deleteRangeLocal: db.Delete(ctx, tk) on the
\* buffer, then the slot is given back
deleteRangeLocal_Delete(j, tk) ==
    /\ flush.ops[j][1] = "delRangeOp"
    /\ tk \in flush.g[j].kids
    /\ flush' = [flush EXCEPT !.ops = flush.ops \o goBuffer_Delete(flush.v, tk),
                              !.exec = flush.exec \o <<0, 0>>,
                              !.g[j].kids = flush.g[j].kids \ {tk},
                              !.wq = flush.wq - 1]
    /\ bucket' = bucket
    /\ FlushFrame

\* the goroutine of one key of processRangeLocal: the value is read and
\* handed back, then the slot is given back
processRangeLocal_Get(j, tk) ==
    /\ flush.ops[j][1] = "getOp"
    /\ tk \in flush.g[j].kids
    /\ flush' = [flush EXCEPT !.g[j].kids = flush.g[j].kids \ {tk},
                              !.wq = flush.wq - 1]
    /\ bucket' = bucket
    /\ FlushFrame

\* every goroutine of a key has finished: the slot is asked for again, the
\* result goes to retVals and the slot is given back
LocalRange_Return(j) ==
    /\ flush.g[j].pc = "spawn"
    /\ flush.g[j].keys = <<>>
    /\ flush.g[j].kids = {}
    /\ flush.wq < MAXCONNECTIONS
    /\ flush' = [flush EXCEPT !.g[j].pc = "done",
                              !.retVals = flush.retVals + 1,
                              !.exec[j] = flush.exec[j] + 1]
    /\ bucket' = bucket
    /\ FlushFrame

FlushNext ==
    \/ Flush_Launch
    \/ Flush_StartCollect
    \/ Flush_Collect
    \/ Flush_Return
    \/ \E j \in 1..flush.n0 : Flush_Exec(j)
    \/ \E j \in 1..flush.n0 : LocalRange_Keys(j)
    \/ \E j \in 1..flush.n0 : LocalRange_Spawn(j)
    \/ \E j \in 1..flush.n0, tk \in TKeys : deleteRangeLocal_Delete(j, tk)
    \/ \E j \in 1..flush.n0, tk \in TKeys : processRangeLocal_Get(j, tk)
    \/ \E j \in 1..flush.n0 : LocalRange_Return(j)

SpecFlush == FlushInit /\ [][FlushNext]_vars

\* every goroutine and Flush itself is scheduled as long as it can step
SpecFlushFair == SpecFlush /\ WF_vars(FlushNext)

----------------------------------------------------------------------------
(* Claims about DeleteRange and Flush *)

\* GBucket.DeleteRange(ctx, kStart, kEnd) = NewBuffer, DeleteRange, Flush
GBucket_DeleteRangeReturned ==
    /\ Len(flush.calls) = 1
    /\ flush.calls[1][1] = "DeleteRange"
    /\ flush.pc = "returned"
    /\ ~flush.err

\* C24: after DeleteRange(ctx, kStart, kEnd) has returned without error, no
\* key of [kStart, kEnd] is found at the same context (gbucket engine).
C24_DeleteRangeClears ==
    GBucket_DeleteRangeReturned =>
        /\ getKeysInRange(bucket, flush.v, flush.calls[1][2], flush.calls[1][3]) = <<>>
        /\ \A tk \in TKeys :
               (flush.calls[1][2] <= tk /\ tk <= flush.calls[1][3])
                   => GBucket_Get(bucket, flush.v, tk) = Nil

\* every operation in the buffer has run against the bucket exactly once
AllExecutedOnce == \A j \in 1..Len(flush.ops) : flush.exec[j] = 1

\* C30: Flush terminates, and when it returns every operation buffered,
\* the deletes generated by a delete-range operation included, has been
\* executed exactly once.
C30_FlushCompletes == <>(flush.pc = "returned" /\ AllExecutedOnce)

\* Flush waits for more return values than goroutines it started
FlushHangs ==
    /\ flush.pc = "collect"
    /\ flush.n1 > flush.n0
    /\ flush.got = flush.retVals
    /\ \A j \in 1..flush.n0 : flush.g[j].pc = "done"

\* Flush has returned and deletes appended by deleteRangeLocal never ran
FlushSkipsDeletes ==
    /\ flush.pc = "returned"
    /\ \E j \in 1..Len(flush.ops) : flush.exec[j] = 0

\* without a delete-range operation Flush returns with every operation
\* executed once
FlushCompletesWithoutDeleteRange ==
    (\A k \in 1..Len(flush.calls) : flush.calls[k][1] # "DeleteRange")
        ~> (flush.pc = "returned" /\ AllExecutedOnce)

----------------------------------------------------------------------------
(* Claims about repeated operations of the key-value engines *)

\* C25: a Delete(tk) at version V that follows a Delete(tk) at V leaves every
\* physical key and value of both engines as they were, and with them every
\* later Get and range result.
C25_DeleteIdempotent ==
    [][redone' => (ldb' = ldb /\ bucket' = bucket)]_vars

\* Delete(tk) at V was applied twice in a row over a value stored at an
\* ancestor: the tombstone is stored and the reads at V find nothing
C25_Witness ==
    /\ redone
    /\ \E tk \in TKeys :
        /\ hist[tk][2] = Deleted
        /\ hist[tk][1] \in Values
        /\ TombstoneKey(2, tk) \in DOMAIN ldb
        /\ LevelDB_Get(ldb, 2, tk) = Nil
        /\ GBucket_Get(bucket, 2, tk) = Nil


----------------------------------------------------------------------------
(* Claims about the goroutines of a split and the counters of a mutation *)

\* the blocks the workers of fine split c have sent on deleteBlkCh: the ones
\* the collector has appended and the one it has received and not yet appended
ReportedBlocks(c) ==
    Range(call[c].deleteBlks)
        \cup (IF call[c].coll = "got" THEN {call[c].collBlk} ELSE {})

\* C26: when the index update of a fine split commits, every block a worker
\* reported as left without a voxel of F is in the block list splitIndices
\* subtracts from Meta(F).blocks, whatever the interleaving of the workers,
\* the collector goroutine and the coordinator.
C26_ReportedBlocksSubtracted ==
    [][\A c \in Calls :
          (call[c].pc = "indices" /\ call'[c].committed)
              => ReportedBlocks(c) \subseteq Range(call[c].deleteBlks)]_vars

\* a fine split reaches splitIndices while the collector still holds a block
CollectorBehind ==
    \E c \in Calls : call[c].pc = "indices" /\ call[c].coll = "got" /\ fails = 0

\* the block operations of mutation m that are sent and not yet done: the
\* messages waiting in a shard channel and the ones a worker is processing
PendingOps(m) ==
    LET RECURSIVE Count(_)
        Count(ns) ==
            IF ns = {} THEN 0
            ELSE LET n == CHOOSE x \in ns : TRUE
                 IN Len(SelectSeq(mutateCh[n], LAMBDA msg : call[msg.c].mutID = m))
                    + (IF worker[n].pc = "have" /\ call[worker[n].c].mutID = m
                       THEN 1 ELSE 0)
                    + Count(ns \ {n})
    IN Count(Shards)

\* the coordinator of request c is blocked in MutWait
AtBarrier(c) ==
    \/ call[c].pc = "enqueue" /\ call[c].op.kind = "merge" /\ call[c].toSend = {}
    \/ call[c].pc = "wait"

\* the counter of every mutation is the number of its unfinished operations
MutBalanced == \A m \in DOMAIN mutWG : mutWG[m] = PendingOps(m)

\* the goroutines of the shards and the collectors run whenever they can
SpecMSFair ==
    /\ SpecMS
    /\ \A n \in Shards : /\ WF_vars(mutateBlock_Get(n))
                         /\ WF_vars(mergeBlock_Put(n))
                         /\ WF_vars(splitBlock_Put(n))
    /\ \A c \in Calls : WF_vars(collector_Append(c))

\* C27: every enqueue adds one to the counter of its mutation and every block
\* operation, whether it stores its block or ends on an error, takes one off,
\* so the counter is the number of unfinished operations and, the workers
\* being scheduled fairly, a coordinator waiting at the barrier finds the
\* counter at zero in the end.
C27_BarrierReleased ==
    /\ []MutBalanced
    /\ \A c \in Calls : AtBarrier(c) ~> MutWaitReturns(c)

\* a request has passed its barrier after one of its block operations ended
\* on an error and another stored its block
C27_Witness ==
    \E c \in Calls :
        /\ call[c].pc \in {"commit", "indices"}
        /\ call[c].blkErr
        /\ call[c].bc >= 1
        /\ MutCount(mutWG, call[c].mutID) = 0

\* no merge and no split is in progress
AllFinished == \A c \in Calls : call[c].pc \in {"idle", "done"}

\* C28: every StartUpdate of MergeLabels and of processSplit is matched by
\* one StopUpdate on every return path, so once every merge and split has
\* finished the count of updates in progress is back to zero.
C28_UpdatesBalanced == AllFinished => updating = 0

\* the count is left raised by a merge that labels.MergeStart rejected
MergeRejectedCounted ==
    /\ AllFinished /\ fails = 0 /\ updating > 0
    /\ \E c \in Calls : call[c].op.kind = "merge" /\ call[c].rejected

\* the count is left raised by a fine split whose index update failed
SplitIndexFailedCounted ==
    /\ AllFinished /\ updating > 0
    /\ \A c \in Calls : ~call[c].rejected
    /\ \E c \in Calls : call[c].op.kind = "split" /\ call[c].ret = "err"
                        /\ call[c].mutID # 0

\* C28 without the two paths: a request that was neither rejected nor ended
\* by a failed operation leaves the count as it found it
UpdatesBalancedOtherwise ==
    (AllFinished /\ fails = 0 /\ \A c \in Calls : ~call[c].rejected)
        => updating = 0

----------------------------------------------------------------------------
(* Claims about the physical keys of the two engines *)

\* the (type-key, version) pairs of store s that hold a value key and a
\* tombstone key at once
ValueAndTombstone(s) ==
    {<<tk, v>> \in TKeys \X Versions :
        ConstructKey(v, tk) \in DOMAIN s /\ TombstoneKey(v, tk) \in DOMAIN s}

\* C31: after any sequence of committed batches of versioned puts and
\* deletes on the basholeveldb engine (a single Put or Delete is the batch of
\* one operation), no type-key has both a value key and a tombstone key at
\* one version.
C31_ValueOrTombstone == ValueAndTombstone(ldb) = {}

\* a type-key deleted and then put at one version, and another put and then
\* deleted in one batch at one version
C31_Witness ==
    /\ nops = MaxBatches
    /\ \E tk \in TKeys, v \in Versions :
          /\ hist[tk][v] \in Values
          /\ ConstructKey(v, tk) \in DOMAIN ldb
          /\ TombstoneKey(v, tk) \notin DOMAIN ldb
    /\ \E tk \in TKeys, v \in Versions :
          /\ hist[tk][v] = Deleted
          /\ TombstoneKey(v, tk) \in DOMAIN ldb

\* the same on the gbucket engine, whose Flush runs the buffered operations
\* of a batch in no order
GBucket_ValueOrTombstone == ValueAndTombstone(bucket) = {}

\* the single operations of both engines keep value and tombstone apart
KV_ValueOrTombstone ==
    call = <<>> => ValueAndTombstone(ldb) = {} /\ ValueAndTombstone(bucket) = {}

----------------------------------------------------------------------------
(* Claims about what DeleteRange writes *)

\* what a DeleteRange at version v over [kStart, kEnd] may change in store
\* s0 to give store s: keys of other versions stay as they are, and the only
\* keys added are tombstones at v of type-keys of the range
DeleteRangeFrame(s0, s, v, kStart, kEnd) ==
    /\ \A k \in DOMAIN s0 :
           VersionFromKey(k) # v => (k \in DOMAIN s /\ s[k] = s0[k])
    /\ \A k \in (DOMAIN s) \ (DOMAIN s0) :
           /\ IsTombstone(k) /\ VersionFromKey(k) = v
           /\ kStart <= TKeyFromKey(k) /\ TKeyFromKey(k) <= kEnd

\* the gbucket DeleteRange that returned has written a tombstone at its
\* version for every type-key of the range that was visible there
GBucket_DeleteRangeTombstones ==
    \A tk \in TKeys :
        (/\ flush.calls[1][2] <= tk /\ tk <= flush.calls[1][3]
         /\ GBucket_Get(flush.b0, flush.v, tk) # Nil)
            => TombstoneKey(flush.v, tk) \in DOMAIN bucket

\* C32: a versioned DeleteRange at version V that returned without error has
\* written a tombstone at V for every type-key of the range visible at V, and
\* nothing else but at V: every physical key of another version is as it was
\* (gbucket engine).
C32_DeleteRangeAtVersionOnly ==
    GBucket_DeleteRangeReturned =>
        /\ GBucket_DeleteRangeTombstones
        /\ DeleteRangeFrame(flush.b0, bucket, flush.v,
                            flush.calls[1][2], flush.calls[1][3])

\* the gbucket DeleteRange leaves the keys of other versions as they were
GBucket_DeleteRangeFrame ==
    GBucket_DeleteRangeReturned =>
        DeleteRangeFrame(flush.b0, bucket, flush.v,
                         flush.calls[1][2], flush.calls[1][3])

\* the gbucket DeleteRange returned nil over a visible type-key and wrote
\* no tombstone
GBucket_DeleteRangeNoTombstone ==
    /\ GBucket_DeleteRangeReturned
    /\ flush.v # RootVersion
    /\ \E tk \in TKeys :
          /\ flush.calls[1][2] <= tk /\ tk <= flush.calls[1][3]
          /\ GBucket_Get(flush.b0, flush.v, tk) # Nil
          /\ TombstoneKey(flush.v, tk) \notin DOMAIN bucket

\* the basholeveldb DeleteRange, at every step and whatever errors it meets,
\* leaves the keys of other versions as they were, so that every read at
\* another version returns what it returned before
LevelDB_DeleteRangeFrame ==
    (rcall.kind = "DeleteRange" /\ rcall.versioned) =>
        /\ DeleteRangeFrame(prod.snap, ldb, rcall.v, rcall.kStart, rcall.kEnd)
        /\ \A a \in Versions \ {rcall.v}, tk \in TKeys :
               IsAncestorOrSelf(a, rcall.v)
                   => LevelDB_Get(ldb, a, tk) = LevelDB_Get(prod.snap, a, tk)

\* the basholeveldb DeleteRange that met no error has written a tombstone at
\* its version for every type-key of the range that was visible there
LevelDB_DeleteRangeTombstones ==
    (/\ RangeReturned({"DeleteRange"})
     /\ rcall.versioned
     /\ cons.ret = "ok"
     /\ ~cons.gotErr)
    => \A tk \in TKeys :
           (/\ rcall.kStart <= tk /\ tk <= rcall.kEnd
            /\ LevelDB_Get(prod.snap, rcall.v, tk) # Nil)
               => TombstoneKey(rcall.v, tk) \in DOMAIN ldb

\* DeleteRange at a child version over a value stored at the root: the
\* tombstone is at the child and the root still reads the value
LevelDB_DeleteRangeOverAncestor ==
    /\ RangeReturned({"DeleteRange"})
    /\ rcall.versioned /\ rcall.v # RootVersion
    /\ cons.ret = "ok" /\ ~cons.gotErr
    /\ \E tk \in TKeys :
          /\ LevelDB_Get(prod.snap, rcall.v, tk) # Nil
          /\ ConstructKey(RootVersion, tk) \in DOMAIN ldb
          /\ TombstoneKey(rcall.v, tk) \in DOMAIN ldb
          /\ LevelDB_Get(ldb, RootVersion, tk) # Nil

----------------------------------------------------------------------------
(* Specification of DeleteAll: one call, issued to both engines, on a     *)
(* store written by Put and Delete                                        *)

\* the least and the greatest type-key of the instance
MinTKey == CHOOSE t \in TKeys : \A o \in TKeys : t <= o
MaxTKey == CHOOSE t \in TKeys : \A o \in TKeys : o <= t

\* the keys LevelDB.DeleteAll adds to its batches, in iterator order: every
\* key of the instance, or the ones whose version is the context's
LevelDB_DeleteAllKeys(s, v, allVersions) ==
    LET from == Seek(s, MinVersionKey(MinTKey))
        keys == SubSeq(IterKeys(s), from, Len(IterKeys(s)))
    IN SelectSeq(keys, LAMBDA k :
           /\ ~KeyGT(k, MaxVersionKey(MaxTKey))
           /\ allVersions \/ VersionFromKey(k) = v)

\* the deletes of the first n keys, committed in batches of BATCH_SIZE
DeletesOf(keys, n) == [i \in 1..n |-> <<"del", keys[i]>>]

\* the number of keys committed when the nfail-th Commit fails (0: none does)
Committed(keys, nfail) ==
    IF nfail = 0 THEN Len(keys) ELSE (nfail - 1) * BATCH_SIZE

\* the number of Commits DeleteAll makes
NumCommits(keys) == (Len(keys) + BATCH_SIZE - 1) \div BATCH_SIZE

\* GBucket.RawDelete of each key: a buffer with one delOp, flushed
RECURSIVE RawDeleteEach(_, _)
RawDeleteEach(b, ks) ==
    IF ks = {} THEN b
    ELSE LET k == CHOOSE x \in ks : TRUE
         IN RawDeleteEach(ExecOp(b, <<"delOp", k>>)[1], ks \ {k})

\* GBucket.DeleteAll: the keys of the instance are listed and the ones kept
\* by the filter are deleted, each by a goroutine of its own
GBucket_DeleteAll(b, v, allVersions) ==
    LET keys == getKeysInRangeRaw(b, MinVersionKey(MinTKey), MaxVersionKey(MaxTKey))
        sel == IF allVersions THEN keys
               ELSE {k \in keys : ConstructKey(v, TKeyFromKey(k)) = k}
    IN RawDeleteEach(b, sel)

DeleteAllInit ==
    /\ \E script \in RangeScripts :
        /\ ldb = StoreAfter(EmptyStore, script)
        /\ bucket = BucketAfter(EmptyStore, script)
    /\ hist = <<>>
    /\ nops = 0
    /\ MSIdle
    /\ rcall = NoCall
    /\ prod = <<>>
    /\ cons = <<>>
    /\ flush = <<>>
    /\ redone = FALSE

\* DeleteAll(ctx at version v, allVersions) on both engines; the nfail-th
\* Commit of the basholeveldb engine fails (0: none does)
DeleteAll(v, allVersions, nfail) ==
    /\ rcall.kind = "none"
    /\ LET keys == LevelDB_DeleteAllKeys(ldb, v, allVersions)
       IN /\ nfail <= NumCommits(keys)
          /\ ldb' = WriteBatch(ldb, DeletesOf(keys, Committed(keys, nfail)))
    /\ bucket' = GBucket_DeleteAll(bucket, v, allVersions)
    /\ rcall' = [kind |-> "DeleteAll", v |-> v, allVersions |-> allVersions,
                 ret |-> IF nfail = 0 THEN "ok" ELSE "err",
                 ldb0 |-> ldb, bucket0 |-> bucket]
    /\ UNCHANGED <<hist, nops, redone, prod, cons, flush, msVars>>

DeleteAllNext ==
    \E v \in {1, 2}, allVersions \in BOOLEAN, nfail \in 0..2 :
        DeleteAll(v, allVersions, nfail)

SpecDeleteAll == DeleteAllInit /\ [][DeleteAllNext]_vars

\* store s0 without the keys DeleteAll is to remove
WithoutDeleted(s0, v, allVersions) ==
    [k \in {x \in DOMAIN s0 : ~allVersions /\ VersionFromKey(x) # v} |-> s0[k]]

\* C33: after DeleteAll(ctx, allVersions) has returned without error, on
\* both engines, the store is the store before the call without the keys of
\* ctx's version (allVersions false) or without any key (allVersions true):
\* values and tombstones are removed alike, no tombstone is written, and the
\* keys of other versions are as they were.
C33_DeleteAllRemoves ==
    (rcall.kind = "DeleteAll" /\ rcall.ret = "ok") =>
        /\ ldb = WithoutDeleted(rcall.ldb0, rcall.v, rcall.allVersions)
        /\ bucket = WithoutDeleted(rcall.bucket0, rcall.v, rcall.allVersions)

\* the basholeveldb engine alone
LevelDB_DeleteAllRemoves ==
    (rcall.kind = "DeleteAll" /\ rcall.ret = "ok") =>
        ldb = WithoutDeleted(rcall.ldb0, rcall.v, rcall.allVersions)

\* the gbucket engine when every version is deleted
GBucket_DeleteAllVersionsRemoves ==
    (rcall.kind = "DeleteAll" /\ rcall.allVersions) => bucket = EmptyStore

\* the gbucket engine never writes a key nor touches another version
GBucket_DeleteAllFrame ==
    rcall.kind = "DeleteAll" =>
        /\ DOMAIN bucket \subseteq DOMAIN rcall.bucket0
        /\ \A k \in DOMAIN rcall.bucket0 :
               (~rcall.allVersions /\ VersionFromKey(k) # rcall.v)
                   => (k \in DOMAIN bucket /\ bucket[k] = rcall.bucket0[k])

\* GBucket.DeleteAll of one version returned and a tombstone of that
\* version is still stored, while the basholeveldb engine removed it
GBucket_DeleteAllKeepsTombstone ==
    /\ rcall.kind = "DeleteAll" /\ rcall.ret = "ok" /\ ~rcall.allVersions
    /\ \E tk \in TKeys :
          /\ TombstoneKey(rcall.v, tk) \in DOMAIN bucket
          /\ TombstoneKey(rcall.v, tk) \in DOMAIN rcall.ldb0
          /\ TombstoneKey(rcall.v, tk) \notin DOMAIN ldb

----------------------------------------------------------------------------
(* Claims about Delete of a type-key without a key at the version *)

\* GBucket.Delete returns the error Flush collected from its two operations
GBucket_DeleteFails(b, v, tk) ==
    \E ord \in Orders(Len(goBuffer_Delete(v, tk))) :
        Flush(b, goBuffer_Delete(v, tk), ord)[2]

\* the step is Delete(tk) at version v
IsDelete(v, tk) ==
    /\ nops' = nops + 1
    /\ hist' = [hist EXCEPT ![tk][v] = Deleted]

\* C34: a Delete(tk) at version V of a type-key that has no physical key at
\* V itself returns without error on both engines and leaves the tombstone
\* of V written.
C34_DeleteWithoutKey ==
    [][\A v \in Versions, tk \in TKeys :
          (/\ IsDelete(v, tk)
           /\ ConstructKey(v, tk) \notin DOMAIN ldb
           /\ ConstructKey(v, tk) \notin DOMAIN bucket)
          => /\ ~GBucket_DeleteFails(bucket, v, tk)
             /\ TombstoneKey(v, tk) \in DOMAIN ldb'
             /\ TombstoneKey(v, tk) \in DOMAIN bucket']_vars

\* the tombstone is written on both engines whether or not a key was stored
DeleteWritesTombstone ==
    [][\A v \in Versions, tk \in TKeys :
          IsDelete(v, tk)
          => /\ TombstoneKey(v, tk) \in DOMAIN ldb'
             /\ TombstoneKey(v, tk) \in DOMAIN bucket'
             /\ ConstructKey(v, tk) \notin DOMAIN ldb'
             /\ ConstructKey(v, tk) \notin DOMAIN bucket']_vars

\* GBucket.Delete returns an error exactly when no value key is stored at
\* the version
GBucket_DeleteFailsWithoutKey ==
    call = <<>> =>
        \A v \in Versions, tk \in TKeys :
            GBucket_DeleteFails(bucket, v, tk)
                <=> ConstructKey(v, tk) \notin DOMAIN bucket

----------------------------------------------------------------------------
(* Claims about the two engines read side by side *)

\* C35: after every sequence of versioned Put and Delete operations issued
\* one at a time to both engines, a Get of any type-key at any version, the
\* root included, returns the same value or absent on the gbucket engine as
\* on the basholeveldb engine.
C35_EnginesAgree ==
    call = <<>> =>
        \A v \in Versions, tk \in TKeys :
            GBucket_Get(bucket, v, tk) = LevelDB_Get(ldb, v, tk)

\* both engines read a value at the root, absent at a child that deleted it,
\* the value of the root at the other child, and a value put at a grandchild
C35_Witness ==
    \E tk \in TKeys, c, o, g \in Versions :
        /\ Parent(c) = RootVersion /\ c # RootVersion
        /\ Parent(o) = RootVersion /\ o \notin {c, RootVersion}
        /\ Parent(g) = c
        /\ hist[tk][RootVersion] \in Values
        /\ hist[tk][c] = Deleted
        /\ hist[tk][o] = NoWrite
        /\ hist[tk][g] \in Values
        /\ GBucket_Get(bucket, RootVersion, tk) = hist[tk][RootVersion]
        /\ GBucket_Get(bucket, c, tk) = Nil
        /\ GBucket_Get(bucket, o, tk) = hist[tk][RootVersion]
        /\ GBucket_Get(bucket, g, tk) = hist[tk][g]

----------------------------------------------------------------------------
(* Specification of the per-block relabeling: one block, relabeled again  *)
(* and again by the loop of mergeBlock, by replaceLabel or by splitLabel  *)

RelabelLabels == {1, 2, 3}
RelabelBlocks == [1..BlockVoxels -> RelabelLabels]

\* one run <<start, length>> inside the block, or two runs
Runs == {<<s, n>> \in (1..BlockVoxels) \X (1..BlockVoxels) : s + n - 1 <= BlockVoxels}
RLEs == {<<r>> : r \in Runs}
        \cup {p \in Runs \X Runs : p[1][2] = 1 /\ p[2][2] = 1 /\ p[1][1] < p[2][1]}

\* merge of the labels M into T (T not in M), coarse replace of F by T, fine
\* split of the runs from F into T
Relabelings ==
    {[kind |-> "merge", merged |-> M, from |-> 0, to |-> T, rles |-> <<>>] :
        M \in (SUBSET RelabelLabels) \ {{}}, T \in RelabelLabels}
    \cup {[kind |-> "coarse", merged |-> {}, from |-> F, to |-> T, rles |-> <<>>] :
        F \in RelabelLabels, T \in RelabelLabels}
    \cup {[kind |-> "split", merged |-> {}, from |-> F, to |-> T, rles |-> r] :
        F \in RelabelLabels, T \in RelabelLabels, r \in RLEs}

NoRelabeling == [kind |-> "none", merged |-> {}, from |-> 0, to |-> 0, rles |-> <<>>]

\* the block data after the relabeling of one block operation
Relabeled(data, op) ==
    IF op.kind = "merge" THEN mergeRelabel(data, op.merged, op.to)
    ELSE IF op.kind = "coarse" THEN replaceLabel(data, op.from, op.to)[1]
    ELSE splitLabel(data, op.rles, op.from, op.to)[1]

RelabelInit ==
    /\ ldb = EmptyStore
    /\ bucket = EmptyStore
    /\ hist = <<>>
    /\ nops = 0
    /\ RangeIdle
    /\ openV = RootVersion
    /\ mutateCh = <<>>
    /\ worker = <<>>
    /\ mutWG = <<>>
    /\ nextMutID = 1
    /\ dirty = {}
    /\ updating = 0
    /\ maxLabel = 0
    /\ fails = 0
    /\ blkFailed = <<>>
    /\ seqBlock \in RelabelBlocks
    /\ call = [op |-> NoRelabeling, repeat |-> FALSE, pre |-> seqBlock,
               orig |-> seqBlock]

\* one block operation relabels the block; call remembers the operation,
\* the block it was applied to, and whether it repeats the one before
Relabel(op) ==
    /\ op.kind = "merge" => op.to \notin op.merged
    /\ seqBlock' = Relabeled(seqBlock, op)
    /\ call' = [op |-> op, repeat |-> (call.op = op), pre |-> seqBlock,
                orig |-> IF call.op = op THEN call.pre ELSE seqBlock]
    /\ UNCHANGED <<ldb, kvVars, openV, mutateCh, worker, mutWG, nextMutID,
                   dirty, updating, maxLabel, fails, blkFailed>>

RelabelNext == \E op \in Relabelings : Relabel(op)

SpecRelabel == RelabelInit /\ [][RelabelNext]_vars

\* C36: the relabeling of a merge (labels of M become T, T not in M), of a
\* coarse replace (F becomes T) or of a fine split (the runs become T),
\* applied to a block it was just applied to, leaves the block contents as
\* they are.
C36_RelabelIdempotent == call.repeat => seqBlock = call.pre

\* each kind of relabeling was applied twice in a row, the first time
\* changing the block
RepeatedChange(kind) ==
    /\ call.repeat /\ call.op.kind = kind
    /\ call.orig # call.pre
    /\ seqBlock = call.pre

C36_Witness ==
    /\ RepeatedChange("split") /\ Len(call.op.rles) = 2
    /\ \E i \in DOMAIN seqBlock : seqBlock[i] = call.op.from

\* the same for the relabeling of a merge and of a coarse replace
MergeRelabeledTwice == RepeatedChange("merge") /\ Cardinality(call.op.merged) = 2
CoarseReplacedTwice == RepeatedChange("coarse") /\ call.op.from # call.op.to

----------------------------------------------------------------------------
(* Specification of the grouping of changed blocks by octant:             *)
(* StoreDownres and getHiresChanges on one map of changed blocks          *)

\* Go's x >> k and x % n on signed integers: the shift rounds down, the
\* remainder has the sign of x
Shr(x, k) == x \div (2 ^ k)
Rem(x, n) == IF x >= 0 THEN x % n ELSE -((-x) % n)

\* chunk coordinates are <<x, y, z>>
loresZYX(hresCoord) ==
    <<Shr(hresCoord[1], 1), Shr(hresCoord[2], 1), Shr(hresCoord[3], 1)>>

\* idx as getHiresChanges computes it
OctantIdx(hresCoord) ==
    Shr(Rem(hresCoord[3], 2), 2) + Shr(Rem(hresCoord[2], 2), 1)
        + Rem(hresCoord[1], 2)

\* the eight high-resolution blocks of a low-resolution block
Children(lores) ==
    {<<2 * lores[1] + a, 2 * lores[2] + b, 2 * lores[3] + c>> :
        a \in {0, 1}, b \in {0, 1}, c \in {0, 1}}

\* the low-resolution blocks whose children change
LoresBlocks == {<<0, 0, 0>>, <<1, 0, -1>>}

EmptyOctant == [i \in 0..7 |-> Nil]

\* the octants of a low-resolution block, found or new
OctantOf(octants, lores) ==
    IF lores \in DOMAIN octants THEN octants[lores] ELSE EmptyOctant

DownresInit ==
    /\ ldb = EmptyStore
    /\ bucket = EmptyStore
    /\ hist = <<>>
    /\ nops = 0
    /\ RangeIdle
    /\ openV = RootVersion
    /\ mutateCh = <<>>
    /\ worker = <<>>
    /\ mutWG = <<>>
    /\ nextMutID = 1
    /\ dirty = {}
    /\ updating = 0
    /\ maxLabel = 0
    /\ fails = 0
    /\ blkFailed = <<>>
    /\ seqBlock = <<>>
    /\ \E lores \in LoresBlocks :
        \E hires \in (SUBSET Children(lores)) \ {{}} :
        call = [pc |-> "group", hires |-> hires, todo |-> hires,
                octants |-> <<>>, numBlocks |-> <<>>]

DownresFrame ==
    UNCHANGED <<ldb, kvVars, openV, mutateCh, worker, mutWG, nextMutID,
                dirty, updating, maxLabel, fails, blkFailed, seqBlock>>

\* one turn of the loop of getHiresChanges, the map being ranged over in no
\* particular order; an index outside the array panics
getHiresChanges(hresCoord) ==
    /\ call.pc = "group"
    /\ hresCoord \in call.todo
    /\ LET idx == OctantIdx(hresCoord)
           lores == loresZYX(hresCoord)
           oct == [OctantOf(call.octants, lores) EXCEPT ![idx] = hresCoord]
       IN IF idx \in 0..7
          THEN call' = [call EXCEPT
                   !.todo = @ \ {hresCoord},
                   !.octants = [l \in (DOMAIN call.octants) \cup {lores} |->
                                   IF l = lores THEN oct ELSE call.octants[l]]]
          ELSE call' = [call EXCEPT !.pc = "panic"]
    /\ DownresFrame

\* StoreDownres counts the blocks of each octant array
StoreDownres ==
    /\ call.pc = "group"
    /\ call.todo = {}
    /\ call' = [call EXCEPT
           !.pc = "done",
           !.numBlocks = [l \in DOMAIN call.octants |->
               Cardinality({i \in 0..7 : call.octants[l][i] # Nil})]]
    /\ DownresFrame

DownresNext ==
    \/ \E hresCoord \in UNION {Children(l) : l \in LoresBlocks} :
           getHiresChanges(hresCoord)
    \/ StoreDownres

SpecDownres == DownresInit /\ [][DownresNext]_vars

\* the octant index of a block: (z&1)*4 + (y&1)*2 + (x&1)
ParityIndex(hresCoord) ==
    (hresCoord[3] % 2) * 4 + (hresCoord[2] % 2) * 2 + (hresCoord[1] % 2)

\* C37: getHiresChanges puts the changed block (x, y, z) at octant index
\* (z&1)*4 + (y&1)*2 + (x&1) of its parent (x>>1, y>>1, z>>1), an index of
\* 0..7 that differs for the eight children of a parent, so StoreDownres
\* counts as many blocks for a parent as children of it changed: 8 when all
\* eight did.
C37_OctantIndex ==
    /\ call.pc # "panic"
    /\ \A l \in DOMAIN call.octants :
           \A p \in (call.hires \ call.todo) :
               loresZYX(p) = l => call.octants[l][ParityIndex(p)] = p
    /\ call.pc = "done" =>
           \A l \in DOMAIN call.numBlocks :
               call.numBlocks[l] = Cardinality({p \in call.hires : loresZYX(p) = l})

\* the eight children of the block at the origin all changed and StoreDownres
\* counts two
OctantsOverwritten ==
    /\ call.pc = "done"
    /\ call.hires = Children(<<0, 0, 0>>)
    /\ call.numBlocks[<<0, 0, 0>>] = 2

\* a block with an odd negative coordinate gives a negative index
NegativeIndex ==
    /\ call.pc = "panic"
    /\ \E p \in call.todo : OctantIdx(p) < 0

\* the parent of a block is the one its coordinates halve to
ParentIsHalf ==
    \A l \in DOMAIN call.octants :
        \A i \in 0..7 :
            call.octants[l][i] # Nil => call.octants[l][i] \in Children(l)

----------------------------------------------------------------------------
(* Claims about the events of a merge *)

\* the blocks listed for the target or a merged label when merge c started
MergeUnion(c) ==
    UNION {PreBlocks(c, l) : l \in {call[c].op.target} \cup call[c].op.merged}

----------------------------------------------------------------------------
(* The retry loops of the gbucket engine: getV and putV against a bucket    *)
(* whose requests may fail                                                  *)

NUM_TRIES == 3

\* what one attempt of getV meets: the service answers and the object, if
\* there is one, is read ("ok"); the object is opened but ioutil.ReadAll
\* fails ("readErr"); NewReader fails with one of two errors
OpenErrors == {"openErrA", "openErrB"}
GetOutcomes == {"ok", "readErr"} \cup OpenErrors

\* what one attempt of putV meets: the object is written and closed; Write
\* returns an error; Close returns an error; Write writes too few bytes
PutOutcomes == {"ok", "writeErr", "closeErr", "short"}
WriteError == "Error writing object to google bucket"

\* the sequences of NUM_TRIES outcomes
RECURSIVE Outcomes(_, _)
Outcomes(S, n) ==
    IF n = 0 THEN {<<>>}
    ELSE {<<o>> \o t : o \in S, t \in Outcomes(S, n - 1)}

\* the loop of getV from attempt i on (i counted from 0), err being the error
\* of the attempt before: ErrObjectNotExist returns (nil, nil), an opened
\* object returns what ReadAll returns, any other error goes to the next
\* attempt
RECURSIVE getV_Tries(_, _, _, _, _)
getV_Tries(b, k, outs, i, err) ==
    IF i >= NUM_TRIES THEN [value |-> Nil, err |-> err, tries |-> i]
    ELSE LET o == outs[i + 1]
         IN IF o \in OpenErrors THEN getV_Tries(b, k, outs, i + 1, o)
            ELSE IF k \notin DOMAIN b
                 THEN [value |-> Nil, err |-> "nil", tries |-> i + 1]
            ELSE IF o = "ok"
                 THEN [value |-> b[k], err |-> "nil", tries |-> i + 1]
            ELSE [value |-> Nil, err |-> o, tries |-> i + 1]

\* the loop of putV from attempt i on: an attempt that fails in any way sets
\* the one error of putV and goes on, a successful one breaks
RECURSIVE putV_Tries(_, _, _, _, _, _)
putV_Tries(b, k, val, outs, i, err) ==
    IF i >= NUM_TRIES THEN [bucket |-> b, err |-> err, tries |-> i]
    ELSE IF outs[i + 1] = "ok"
         THEN [bucket |-> RawPut(b, k, val), err |-> "nil", tries |-> i + 1]
         ELSE putV_Tries(b, k, val, outs, i + 1, WriteError)

RetryKeys == {ConstructKey(RootVersion, tk) : tk \in TKeys}
NoRetry == [fn |-> "none", k |-> Nil, val |-> Nil, outs |-> <<>>,
            b0 |-> EmptyStore, ret |-> Nil, err |-> "nil", tries |-> 0]

RetryInit ==
    /\ ldb = EmptyStore
    /\ \E ks \in SUBSET RetryKeys : \E b \in [ks -> Values] : bucket = b
    /\ hist = <<>>
    /\ nops = 0
    /\ RangeIdle
    /\ openV = RootVersion
    /\ mutateCh = <<>>
    /\ worker = <<>>
    /\ mutWG = <<>>
    /\ nextMutID = 1
    /\ dirty = {}
    /\ updating = 0
    /\ maxLabel = 0
    /\ fails = 0
    /\ blkFailed = <<>>
    /\ seqBlock = <<>>
    /\ call = NoRetry

RetryFrame ==
    UNCHANGED <<ldb, hist, nops, rgVars, flush, redone, openV, mutateCh,
                worker, mutWG, nextMutID, dirty, updating, maxLabel, fails,
                blkFailed, seqBlock>>

\* one call of getV, the outcomes of its attempts given by outs
getV_Call(k, outs) ==
    /\ LET r == getV_Tries(bucket, k, outs, 0, "nil")
       IN call' = [fn |-> "getV", k |-> k, val |-> Nil, outs |-> outs,
                   b0 |-> bucket, ret |-> r.value, err |-> r.err,
                   tries |-> r.tries]
    /\ UNCHANGED bucket
    /\ RetryFrame

\* one call of putV
putV_Call(k, val, outs) ==
    /\ LET r == putV_Tries(bucket, k, val, outs, 0, "nil")
       IN /\ call' = [fn |-> "putV", k |-> k, val |-> val, outs |-> outs,
                      b0 |-> bucket, ret |-> Nil, err |-> r.err,
                      tries |-> r.tries]
          /\ bucket' = r.bucket
    /\ RetryFrame

RetryNext ==
    \/ \E k \in RetryKeys, outs \in Outcomes(GetOutcomes, NUM_TRIES) :
           getV_Call(k, outs)
    \/ \E k \in RetryKeys, val \in Values,
          outs \in Outcomes(PutOutcomes, NUM_TRIES) :
           putV_Call(k, val, outs)

SpecRetry == RetryInit /\ [][RetryNext]_vars

----------------------------------------------------------------------------
(* Claims about the retry loops *)

\* attempt i of the call failed: putV did not write and close the object,
\* getV got neither the object nor the answer that there is none
AttemptFailed(i) ==
    IF call.fn = "putV" THEN call.outs[i] # "ok"
    ELSE \/ call.outs[i] \in OpenErrors
         \/ call.outs[i] = "readErr" /\ call.k \in DOMAIN call.b0

AllAttemptsFailed == \A i \in 1..NUM_TRIES : AttemptFailed(i)

\* putV makes at most NUM_TRIES attempts, every attempt before its last one
\* failed, it stops at the attempt that succeeds, which stores the value,
\* and it returns an error exactly when all attempts failed
putV_Retries ==
    call.fn = "putV" =>
        /\ call.tries \in 1..NUM_TRIES
        /\ \A i \in 1..(call.tries - 1) : AttemptFailed(i)
        /\ call.tries < NUM_TRIES => ~AttemptFailed(call.tries)
        /\ call.err # "nil" <=> AllAttemptsFailed
        /\ call.err = "nil" => bucket = RawPut(call.b0, call.k, call.val)
        /\ call.err # "nil" => bucket = call.b0

\* getV makes at most NUM_TRIES attempts and every attempt before its last
\* one failed to open the object
getV_AtMostTries ==
    call.fn = "getV" =>
        /\ call.tries \in 1..NUM_TRIES
        /\ \A i \in 1..(call.tries - 1) : call.outs[i] \in OpenErrors

\* getV returns (nil, nil) at the first attempt that learns that the object
\* does not exist
getV_NotExist ==
    (call.fn = "getV" /\ call.k \notin DOMAIN call.b0
        /\ call.outs[call.tries] \notin OpenErrors) =>
            call.ret = Nil /\ call.err = "nil"

\* getV returns the stored value at the first attempt that opens and reads
\* the object
getV_Value ==
    (call.fn = "getV" /\ call.k \in DOMAIN call.b0
        /\ call.outs[call.tries] = "ok") =>
            call.ret = call.b0[call.k] /\ call.err = "nil"

\* when every attempt fails to open the object, getV returns the error of
\* the last attempt
getV_LastError ==
    (call.fn = "getV" /\ \A i \in 1..NUM_TRIES : call.outs[i] \in OpenErrors) =>
        /\ call.tries = NUM_TRIES
        /\ call.ret = Nil
        /\ call.err = call.outs[NUM_TRIES]

\* C39: putV makes at most NUM_TRIES attempts, stops at the first that
\* succeeds and returns an error if and only if all attempts failed; getV
\* makes at most NUM_TRIES attempts, returns (nil, nil) at once when the
\* object does not exist, returns the value at the first successful open,
\* and returns an error, the last one, only after all attempts failed.
C39_Retries ==
    /\ putV_Retries
    /\ getV_AtMostTries
    /\ getV_NotExist
    /\ (call.fn = "getV" /\ call.k \in DOMAIN call.b0
           /\ call.outs[call.tries] \notin OpenErrors) =>
               call.ret = call.b0[call.k] /\ call.err = "nil"
    /\ (call.fn = "getV" /\ call.err # "nil") =>
           /\ call.tries = NUM_TRIES
           /\ AllAttemptsFailed
           /\ call.err = call.outs[NUM_TRIES]

\* getV has opened an object that exists at its first attempt, ReadAll has
\* failed, and getV has returned that error without a second attempt
getV_ReadErrorNotRetried ==
    /\ call.fn = "getV"
    /\ call.k \in DOMAIN call.b0
    /\ call.outs[1] = "readErr"
    /\ call.tries = 1
    /\ call.err = "readErr"
    /\ call.ret = Nil

\* putV has failed twice and stored the value at its third attempt
putV_ThirdAttempt ==
    /\ call.fn = "putV"
    /\ call.outs = <<"writeErr", "short", "ok">>
    /\ call.tries = NUM_TRIES
    /\ call.err = "nil"
    /\ bucket # call.b0

\* getV has returned the second error after NUM_TRIES failed opens
getV_ErrorAfterAllTries ==
    /\ call.fn = "getV"
    /\ call.outs = <<"openErrA", "openErrA", "openErrB">>
    /\ call.err = "openErrB"

----------------------------------------------------------------------------
(* Subvolume: the box of voxels given by an offset and a size *)

Dims == 1..3

\* Point3d.Add and Point3d.Sub work coordinate by coordinate
Add(p, x) == [d \in Dims |-> p[d] + x[d]]
Sub(p, x) == [d \in Dims |-> p[d] - x[d]]

Offsets == {-1, 0}
Sizes == 0..2
SubvolumePoints(S) == {<<x, y, z>> : x \in S, y \in S, z \in S}

RECURSIVE Product(_, _)
Product(p, dim) == IF dim = 0 THEN 1 ELSE p[dim] * Product(p, dim - 1)

Subvolume_NumVoxels(s) == Product(s.size, 3)
Subvolume_StartPoint(s) == s.offset
Subvolume_EndPoint(s) == Add(s.offset, Sub(s.size, <<-1, -1, -1>>))

\* the points of the box from point a to point b, both included
Box(a, b) == {<<x, y, z>> : x \in a[1]..b[1], y \in a[2]..b[2], z \in a[3]..b[3]}

\* NewSubvolume(offset, size)
SubvolumeInit ==
    /\ ldb = EmptyStore
    /\ bucket = EmptyStore
    /\ hist = <<>>
    /\ nops = 0
    /\ RangeIdle
    /\ openV = RootVersion
    /\ mutateCh = <<>>
    /\ worker = <<>>
    /\ mutWG = <<>>
    /\ nextMutID = 1
    /\ dirty = {}
    /\ updating = 0
    /\ maxLabel = 0
    /\ fails = 0
    /\ blkFailed = <<>>
    /\ seqBlock = <<>>
    /\ \E offset \in SubvolumePoints(Offsets), size \in SubvolumePoints(Sizes) :
           call = [s |-> [offset |-> offset, size |-> size],
                   voxels |-> Nil, start |-> Nil, end |-> Nil]

SubvolumeFrame ==
    UNCHANGED <<ldb, kvVars, openV, mutateCh, worker, mutWG, nextMutID,
                dirty, updating, maxLabel, fails, blkFailed, seqBlock>>

NumVoxels ==
    /\ call.voxels = Nil
    /\ call' = [call EXCEPT !.voxels = <<Subvolume_NumVoxels(call.s)>>]
    /\ SubvolumeFrame

StartPoint ==
    /\ call.start = Nil
    /\ call' = [call EXCEPT !.start = Subvolume_StartPoint(call.s)]
    /\ SubvolumeFrame

EndPoint ==
    /\ call.end = Nil
    /\ call' = [call EXCEPT !.end = Subvolume_EndPoint(call.s)]
    /\ SubvolumeFrame

SubvolumeNext == NumVoxels \/ StartPoint \/ EndPoint

SpecSubvolume == SubvolumeInit /\ [][SubvolumeNext]_vars

----------------------------------------------------------------------------
(* Claims about Subvolume *)

\* the three methods have answered
Measured == call.voxels # Nil /\ call.start # Nil /\ call.end # Nil

\* C40: EndPoint is the last point of the subvolume: it is StartPoint +
\* Size - 1 in every dimension, and the box from StartPoint to EndPoint
\* holds exactly NumVoxels points.
C40_EndPointIsLastPoint ==
    Measured =>
        /\ \A d \in Dims : call.end[d] = call.start[d] + call.s.size[d] - 1
        /\ Cardinality(Box(call.start, call.end)) = call.voxels[1]

\* EndPoint is StartPoint + Size + 1 in every dimension
EndPointIsTwoPast ==
    call.end # Nil =>
        \A d \in Dims : call.end[d] = call.s.offset[d] + call.s.size[d] + 1

\* NumVoxels is the number of points from StartPoint to StartPoint + Size - 1
NumVoxelsIsSizeOfBox ==
    Measured =>
        call.voxels[1] = Cardinality(Box(call.start,
                                         Sub(Add(call.start, call.s.size),
                                             <<1, 1, 1>>)))

\* a subvolume of one voxel at (0, 0, 0) whose EndPoint is (2, 2, 2), the
\* box up to it holding 27 points
OneVoxelEndsAtTwo ==
    /\ Measured
    /\ call.s = [offset |-> <<0, 0, 0>>, size |-> <<1, 1, 1>>]
    /\ call.voxels = <<1>>
    /\ call.end = <<2, 2, 2>>
    /\ Cardinality(Box(call.start, call.end)) = 27
====
